---- MODULE Spec2Model ----
(***************************************************************************)
(* A model of the end-to-end test harness (testCase.run in                 *)
(* test/e2e/common_suite_test.go) and of the cluster-provisioner command   *)
(* (cmd/cluster-provisioner/main.go).                                      *)
(*                                                                         *)
(* testCase.run builds a feature of three steps (Setup, Assess, Teardown)  *)
(* and hands it to testEnv.Test.  Every call a step makes on the cluster   *)
(* is one action of the model; the cluster, the job controller and the     *)
(* external assertion are the environment and answer nondeterministically. *)
(* The variable ops is the history of the calls and checks made so far.    *)
(*                                                                         *)
(* The fixture builders (test/e2e/common.go) are operators; fx holds the   *)
(* object the last builder call made.  wf is one run of the CI workflow    *)
(* (.github/workflows/azure-e2e-test.yml).                                 *)
(***************************************************************************)
EXTENDS Integers, Sequences, FiniteSets, TLC

\* ---------------------------------------------------------------- bounds
\* The longest list of verification commands of a test case.
MaxCommands == 2
\* The most pods the job controller leaves in the namespace.
MaxPods == 2
\* The most options passed to newPod.
MaxOptions == 2

\* ------------------------------------------------------------- constants
\* const WAIT_POD_RUNNING_TIMEOUT = time.Second * 300 (in seconds).
WAIT_POD_RUNNING_TIMEOUT == 300

\* Container names a verification command may target.
ContainerNames == {"nginx", "sidecar"}

\* tc.pod.Name: the name of the standalone pod (0); the pods of the
\* namespace that the job controller made are named 1, 2, ...
PodName == 0

\* v1.ContainerStateTerminated.Reason of a pod's first container; "none"
\* stands for a container that is not terminated (State.Terminated == nil).
Reasons == {"StartError", "Completed", "Error", "none"}

\* A pod of the namespace as the harness reads it: whether its job-name
\* label equals tc.job.Name, and the termination reason (read only of a pod
\* that carries the label; of the others two reasons are enumerated).
PodKinds ==
    {p \in [jobName : BOOLEAN, reason : Reasons] :
        ~p.jobName => p.reason \in {"StartError", "none"}}

\* Times (seconds) at which a waited-for condition becomes true; 1000 stands
\* for "not within any timeout".
ReadyTimes == {0, 300, 301, 1000}

\* What a completed pod's log stream may hold (buf.String()); a string is a
\* sequence of characters.
RawLogs ==
    { <<>>,
      <<"3", ".", "1", "4", "1", "5", "\n">>,
      <<" ", "3", ".", "1", "4">>,
      <<"3", ".", "1", " ", "4", "\n">>,
      <<"e", "r", "r", "\n">>,
      <<"\n", " ">> }

Steps == {"Setup", "Assess", "Teardown"}

VARIABLES
    tc,            \* the test case: configMap, secret, job present?, testCommands
    pc,            \* the statement testCase.run is at
    cluster,       \* the objects of {"configMap","secret","pod","job"} in the cluster
    nsPods,        \* the other pods of the namespace: <<[name, jobName, reason]>>
    podlist,       \* var podlist v1.PodList of the running step
    idx,           \* the loop index of the running step
    errorpod,      \* Assess: var errorpod int
    successpod,    \* Assess: var successpod int
    podlogstring,  \* Assess: var podlogstring string
    watchers,      \* Assess: event watches opened and not yet stopped
    stepState,     \* how each step ended: notrun, running, returned, failnow, skipnow, panic
    tFailed,       \* testing.T failed flags: feature (Setup, Teardown) and assess (subtest)
    ops,           \* history of calls and checks: <<[step, op, obj, res]>>
    cli,           \* the cluster-provisioner process
    fx,            \* the fixture the last builder call made
    wf             \* the run of the CI workflow

runVars == <<tc, pc, cluster, nsPods, podlist, idx, errorpod, successpod,
             podlogstring, watchers, stepState, tFailed, ops>>
vars == <<tc, pc, cluster, nsPods, podlist, idx, errorpod, successpod,
          podlogstring, watchers, stepState, tFailed, ops, cli, fx, wf>>

\* ------------------------------------------------------------ test cases
RECURSIVE SeqsUpTo(_, _)
SeqsUpTo(S, n) ==
    IF n = 0 THEN {<<>>}
    ELSE LET shorter == SeqsUpTo(S, n - 1)
         IN  shorter \cup {Append(s, x) : s \in {q \in shorter : Len(q) = n - 1}, x \in S}

\* type testCommand struct: the container the command runs in (its argv and
\* its stdout predicate are answered by the environment when it runs).
testCommand == [containerName : ContainerNames]

\* type testCase struct, as newTestCase / newTestCasewithJob and the with*
\* methods build it (a job-driven case is given no verification commands:
\* doTestCreatePeerPodWithJob).
testCase ==
    {c \in [configMap : BOOLEAN, secret : BOOLEAN, job : BOOLEAN,
            testCommands : SeqsUpTo(testCommand, MaxCommands)] :
        c.job => c.testCommands = <<>>}

\* --------------------------------------------------------------- helpers
\* One entry of the history: the step that made the call, the call, its
\* object, its result, and for a call on a pod the pod's name and (Exec) the
\* index of the verification command.
OpOn(step, op, obj, res, pod, n) ==
    [step |-> step, op |-> op, obj |-> obj, res |-> res, pod |-> pod, n |-> n]

Op(step, op, obj, res) == OpOn(step, op, obj, res, -1, 0)

\* wait.For(cond, wait.WithTimeout(WAIT_POD_RUNNING_TIMEOUT)): nil when the
\* condition became true within the timeout, an error otherwise.
WaitFor(readyAt) == IF readyAt <= WAIT_POD_RUNNING_TIMEOUT THEN "ok" ELSE "err"

\* testEnv.Test(tc.testing, podFeature): Setup and Teardown run in the
\* feature's own test goroutine, Assess in a subtest of it.  A step that
\* ends by runtime.Goexit (t.Fatal, t.Skip) ends its goroutine: after Setup
\* that is the whole feature, after Assess only the subtest, and Teardown
\* follows.  A panic ends the test process.
NextPc(step, how) ==
    IF how = "panic" THEN "Done"
    ELSE CASE step = "Setup"    -> IF how = "returned" THEN "a_list" ELSE "Done"
           [] step = "Assess"   -> "t_list"
           [] step = "Teardown" -> "Done"

EndStep(ss, step, how) ==
    LET s1 == [ss EXCEPT ![step] = how]
        nxt == NextPc(step, how)
    IN  IF nxt = "a_list" THEN [s1 EXCEPT !["Assess"] = "running"]
        ELSE IF nxt = "t_list" THEN [s1 EXCEPT !["Teardown"] = "running"]
        ELSE s1

\* t.Fail(): marks the test failed, and its parent with it.
MarkFailed(tf, step) ==
    IF step = "Assess" THEN [feature |-> TRUE, assess |-> TRUE]
    ELSE [tf EXCEPT !.feature = TRUE]

\* The step ends `how`; `fail` tells whether it marks its test failed.
End(step, how, fail) ==
    /\ pc' = NextPc(step, how)
    /\ stepState' = EndStep(stepState, step, how)
    /\ tFailed' = IF fail THEN MarkFailed(tFailed, step) ELSE tFailed

\* t.Fatal(err): t.Fail() then runtime.Goexit().
Fatal(step) == End(step, "failnow", TRUE)

\* ------------------------------------------------------------------ Init
RunStart ==
    /\ cluster = {}
    /\ nsPods = <<>>
    /\ podlist = <<>>
    /\ idx = 0
    /\ errorpod = 0
    /\ successpod = 0
    /\ podlogstring = <<>>
    /\ watchers = 0
    /\ stepState = [s \in Steps |-> IF s = "Setup" THEN "running" ELSE "notrun"]
    /\ tFailed = [feature |-> FALSE, assess |-> FALSE]
    /\ ops = <<>>

\* testCase.run() is entered with a test case of the builders' making.
RunInit ==
    /\ tc \in testCase
    /\ pc = "s_client"
    /\ RunStart

\* No test case is running.
RunIdle ==
    /\ tc = [configMap |-> FALSE, secret |-> FALSE, job |-> FALSE, testCommands |-> <<>>]
    /\ pc = "Done"
    /\ RunStart

\* ----------------------------------------------------------------- Setup
assessLocals == <<podlist, idx, errorpod, successpod, podlogstring, watchers>>

\* client, err := cfg.NewClient(); if err != nil { t.Fatal(err) }
SetupNewClient ==
    /\ pc = "s_client"
    /\ \E res \in {"ok", "err"} :
        /\ ops' = Append(ops, Op("Setup", "NewClient", "client", res))
        /\ IF res = "err" THEN Fatal("Setup")
           ELSE pc' = "s_cm" /\ UNCHANGED <<stepState, tFailed>>
    /\ UNCHANGED <<tc, cluster, nsPods, assessLocals, cli, fx, wf>>

\* SetupCreate with the error reported by t.Errorf: Setup goes on.
SetupCreateErrorf(present, obj, next) ==
    IF present
    THEN \E res \in {"ok", "err"} :
            /\ ops' = Append(ops, Op("Setup", "Create", obj, res))
            /\ cluster' = IF res = "err" THEN cluster ELSE cluster \cup {obj}
            /\ tFailed' = IF res = "err" THEN MarkFailed(tFailed, "Setup") ELSE tFailed
            /\ pc' = next
            /\ UNCHANGED stepState
    ELSE pc' = next /\ UNCHANGED <<ops, cluster, stepState, tFailed>>

\* A conditional create of Setup: Create(ctx, obj) when `present`, t.Fatal
\* on its error; then on to statement `next`.
SetupCreate(present, obj, next) ==
    IF present
    THEN \E res \in {"ok", "err"} :
            /\ ops' = Append(ops, Op("Setup", "Create", obj, res))
            /\ IF res = "err"
               THEN Fatal("Setup") /\ UNCHANGED cluster
               ELSE /\ cluster' = cluster \cup {obj}
                    /\ pc' = next
                    /\ UNCHANGED <<stepState, tFailed>>
    ELSE pc' = next /\ UNCHANGED <<ops, cluster, stepState, tFailed>>

\* if tc.configMap != nil { Create(tc.configMap) }
SetupCreateConfigMap ==
    /\ pc = "s_cm"
    /\ SetupCreate(tc.configMap, "configMap", "s_secret")
    /\ UNCHANGED <<tc, nsPods, assessLocals, cli, fx, wf>>

\* if tc.secret != nil { Create(tc.secret) }
SetupCreateSecret ==
    /\ pc = "s_secret"
    /\ SetupCreate(tc.secret, "secret", "s_job")
    /\ UNCHANGED <<tc, nsPods, assessLocals, cli, fx, wf>>

\* if tc.job != nil { Create(tc.job) }
SetupCreateJob ==
    /\ pc = "s_job"
    /\ SetupCreate(tc.job, "job", "s_pod")
    /\ UNCHANGED <<tc, nsPods, assessLocals, cli, fx, wf>>

\* SetupCreatePod without its condition: the pod is created beside the job.
SetupCreatePodAlways ==
    /\ pc = "s_pod"
    /\ SetupCreate(TRUE, "pod", "s_waitjob")
    /\ UNCHANGED <<tc, nsPods, assessLocals, cli, fx, wf>>

\* if tc.job == nil { Create(tc.pod) }
SetupCreatePod ==
    /\ pc = "s_pod"
    /\ SetupCreate(~tc.job, "pod", "s_waitjob")
    /\ UNCHANGED <<tc, nsPods, assessLocals, cli, fx, wf>>

\* The pods the job controller has made by the time the wait returns, named
\* 1, 2, ... in the order a listing gives them.
Populations ==
    {[i \in DOMAIN s |-> [name |-> i, jobName |-> s[i].jobName, reason |-> s[i].reason]] :
        s \in SeqsUpTo(PodKinds, MaxPods)}

HasCompleted(pods) ==
    \E i \in DOMAIN pods : pods[i].jobName /\ pods[i].reason = "Completed"

\* if tc.job != nil { if err = wait.For(JobCompleted(tc.job), timeout); err != nil { t.Log(err) } }
\* The condition holds once a pod of the job has completed.
SetupWaitJob ==
    /\ pc = "s_waitjob"
    /\ IF tc.job
       THEN \E pods \in Populations, readyAt \in ReadyTimes :
              /\ WaitFor(readyAt) = "ok" => HasCompleted(pods)
              /\ nsPods' = pods
              /\ ops' = Append(ops, Op("Setup", "Wait", "JobCompleted", WaitFor(readyAt)))
       ELSE UNCHANGED <<nsPods, ops>>
    /\ pc' = "s_waitpod"
    /\ UNCHANGED <<tc, cluster, assessLocals, stepState, tFailed, cli, fx, wf>>

\* SetupWaitPod with the pod wait's error only logged, as the job wait's is.
SetupWaitPodLogged ==
    /\ pc = "s_waitpod"
    /\ IF ~tc.job
       THEN \E readyAt \in ReadyTimes :
              ops' = Append(ops, Op("Setup", "Wait", "PodRunning", WaitFor(readyAt)))
       ELSE UNCHANGED ops
    /\ End("Setup", "returned", FALSE)
    /\ UNCHANGED <<tc, cluster, nsPods, assessLocals, cli, fx, wf>>

\* if tc.job == nil { if err = wait.For(PodRunning(tc.pod), timeout); err != nil { t.Fatal(err) } }
\* return ctx
SetupWaitPod ==
    /\ pc = "s_waitpod"
    /\ IF ~tc.job
       THEN \E readyAt \in ReadyTimes :
              /\ ops' = Append(ops, Op("Setup", "Wait", "PodRunning", WaitFor(readyAt)))
              /\ IF WaitFor(readyAt) = "err" THEN Fatal("Setup")
                 ELSE End("Setup", "returned", FALSE)
       ELSE UNCHANGED ops /\ End("Setup", "returned", FALSE)
    /\ UNCHANGED <<tc, cluster, nsPods, assessLocals, cli, fx, wf>>

Setup ==
    \/ SetupNewClient
    \/ SetupCreateConfigMap
    \/ SetupCreateSecret
    \/ SetupCreateJob
    \/ SetupCreatePod
    \/ SetupWaitJob
    \/ SetupWaitPod

\* ---------------------------------------------------------------- Assess
\* What List(context.TODO(), &podlist) returns: the standalone pod, if it is
\* in the cluster (running, so not terminated), and the namespace's other pods.
Listing ==
    (IF "pod" \in cluster
     THEN <<[name |-> PodName, jobName |-> FALSE, reason |-> "none"]>>
     ELSE <<>>) \o nsPods

\* The cluster has other writers: another client may delete the pod between
\* Setup's running check and Assess's listing.
OtherWriter ==
    /\ pc = "a_list"
    /\ "pod" \in cluster
    /\ cluster' = cluster \ {"pod"}
    /\ ops' = Append(ops, Op("Other", "Delete", "pod", "ok"))
    /\ UNCHANGED <<tc, pc, nsPods, assessLocals, stepState, tFailed, cli, fx, wf>>

\* EndAssess without the deferred watcher.Stop() calls.
EndAssessWatchersLeft(how, fail) ==
    /\ End("Assess", how, fail)
    /\ UNCHANGED watchers

\* Assess ends `how`: the deferred watcher.Stop() calls run (on return, on
\* runtime.Goexit and on a panic alike).
EndAssess(how, fail) ==
    /\ End("Assess", how, fail)
    /\ watchers' = 0

\* if err := ...List(context.TODO(), &podlist); err != nil { t.Fatal(err) }
AssessList ==
    /\ pc = "a_list"
    /\ \E res \in {"ok", "err"} :
        /\ ops' = Append(ops, Op("Assess", "List", "pods", res))
        /\ IF res = "err"
           THEN EndAssess("failnow", TRUE) /\ UNCHANGED podlist
           ELSE /\ podlist' = Listing
                /\ pc' = IF tc.job THEN "a_clientset" ELSE "a_haspodvm"
                /\ UNCHANGED <<stepState, tFailed, watchers>>
    /\ UNCHANGED <<tc, cluster, nsPods, idx, errorpod, successpod, podlogstring, cli, fx, wf>>

\* tc.assert.HasPodVM(t, tc.pod.Name): the caller's assertion; it is handed
\* t, and may pass, report with t.Error and return, or end the step (t.Fatal).
AssessHasPodVM ==
    /\ pc = "a_haspodvm"
    /\ \E res \in {"ok", "error", "fatal"} :
        /\ ops' = Append(ops, OpOn("Assess", "HasPodVM", "podvm", res, PodName, 0))
        /\ IF res = "fatal"
           THEN EndAssess("failnow", TRUE) /\ UNCHANGED idx
           ELSE /\ pc' = "a_cmd"
                /\ idx' = 1
                /\ tFailed' = IF res = "error" THEN MarkFailed(tFailed, "Assess") ELSE tFailed
                /\ UNCHANGED <<stepState, watchers>>
    /\ UNCHANGED <<tc, cluster, nsPods, podlist, errorpod, successpod, podlogstring, cli, fx, wf>>

\* for _, podItem := range podlist.Items { if podItem.ObjectMeta.Name == tc.pod.Name
InListing(items, name) == \E i \in DOMAIN items : items[i].name = name

\* How one verification command ends: ExecInPod returns an error (t.Fatal),
\* testCommandStdoutFn(stdout) is false (t.Fatal), or it is true.
ExecResults == {"ok", "execErr", "badOutput"}

\* ExecInPod(ctx, tc.pod.Namespace, tc.pod.Name, testCommand.containerName, ...)
ExecOp(n, res) ==
    OpOn("Assess", "Exec", tc.testCommands[n].containerName, res, PodName, n)

\* AssessExec with a failed command reported by t.Errorf: the loop goes on.
AssessExecErrorf ==
    /\ pc = "a_cmd"
    /\ IF idx > Len(tc.testCommands)
       THEN EndAssess("returned", FALSE) /\ UNCHANGED <<ops, idx>>
       ELSE IF ~InListing(podlist, PodName)
       THEN idx' = idx + 1 /\ UNCHANGED <<ops, pc, stepState, tFailed, watchers>>
       ELSE \E res \in ExecResults :
              /\ ops' = Append(ops, ExecOp(idx, res))
              /\ idx' = idx + 1
              /\ tFailed' = IF res = "ok" THEN tFailed ELSE MarkFailed(tFailed, "Assess")
              /\ UNCHANGED <<pc, stepState, watchers>>
    /\ UNCHANGED <<tc, cluster, nsPods, podlist, errorpod, successpod, podlogstring, cli, fx, wf>>

\* One round of for _, testCommand := range tc.testCommands { ... }, and the
\* return ctx after the last.
AssessExec ==
    /\ pc = "a_cmd"
    /\ IF idx > Len(tc.testCommands)
       THEN EndAssess("returned", FALSE) /\ UNCHANGED <<ops, idx>>
       ELSE IF ~InListing(podlist, PodName)
       THEN idx' = idx + 1 /\ UNCHANGED <<ops, pc, stepState, tFailed, watchers>>
       ELSE \E res \in ExecResults :
              /\ ops' = Append(ops, ExecOp(idx, res))
              /\ IF res = "ok"
                 THEN idx' = idx + 1 /\ UNCHANGED <<pc, stepState, tFailed, watchers>>
                 ELSE EndAssess("failnow", TRUE) /\ UNCHANGED idx
    /\ UNCHANGED <<tc, cluster, nsPods, podlist, errorpod, successpod, podlogstring, cli, fx, wf>>

\* clienset, err := kubernetes.NewForConfig(...); if err != nil { t.Fatal(err) }
AssessNewClientset ==
    /\ pc = "a_clientset"
    /\ \E res \in {"ok", "err"} :
        /\ ops' = Append(ops, Op("Assess", "NewForConfig", "clientset", res))
        /\ IF res = "err"
           THEN EndAssess("failnow", TRUE) /\ UNCHANGED idx
           ELSE pc' = "a_pod" /\ idx' = 1 /\ UNCHANGED <<stepState, tFailed, watchers>>
    /\ UNCHANGED <<tc, cluster, nsPods, podlist, errorpod, successpod, podlogstring, cli, fx, wf>>

\* One round of for _, i := range podlist.Items { ... } up to the watch:
\* i.Status.ContainerStatuses[0].State.Terminated.Reason is read for a pod
\* that carries the job's label, and dereferences nil when the container is
\* not terminated.
AssessJobPod ==
    /\ pc = "a_pod"
    /\ IF idx > Len(podlist)
       THEN /\ pc' = "a_chk_allerr"
            /\ UNCHANGED <<ops, idx, errorpod, successpod, stepState, tFailed, watchers>>
       ELSE LET i == podlist[idx] IN
            IF ~i.jobName
            THEN /\ idx' = idx + 1
                 /\ UNCHANGED <<ops, pc, errorpod, successpod, stepState, tFailed, watchers>>
            ELSE /\ ops' = Append(ops, OpOn("Assess", "ReadReason", "pod", i.reason, i.name, 0))
                 /\ IF i.reason = "none"
                    THEN EndAssess("panic", TRUE) /\ UNCHANGED <<idx, errorpod, successpod>>
                    ELSE IF i.reason = "StartError"
                    THEN /\ errorpod' = errorpod + 1
                         /\ idx' = idx + 1
                         /\ UNCHANGED <<pc, successpod, stepState, tFailed, watchers>>
                    ELSE IF i.reason = "Completed"
                    THEN /\ successpod' = successpod + 1
                         /\ pc' = "a_watch"
                         /\ UNCHANGED <<idx, errorpod, stepState, tFailed, watchers>>
                    ELSE /\ idx' = idx + 1
                         /\ UNCHANGED <<pc, errorpod, successpod, stepState, tFailed, watchers>>
    /\ UNCHANGED <<tc, cluster, nsPods, podlist, podlogstring, cli, fx, wf>>

\* watcher, err := clienset.CoreV1().Events(ns).Watch(...); if err != nil
\* { t.Fatal(err) }; defer watcher.Stop()
AssessWatch ==
    /\ pc = "a_watch"
    /\ \E res \in {"ok", "err"} :
        /\ ops' = Append(ops, OpOn("Assess", "Watch", "events", res, podlist[idx].name, 0))
        /\ IF res = "err"
           THEN EndAssess("failnow", TRUE)
           ELSE /\ watchers' = watchers + 1
                /\ pc' = "a_events"
                /\ UNCHANGED <<stepState, tFailed>>
    /\ UNCHANGED <<tc, cluster, nsPods, podlist, idx, errorpod, successpod, podlogstring, cli, fx, wf>>

\* What the next receive from watcher.ResultChan() gives: an event whose
\* reason is "Started" and whose involved object is the pod at hand, an
\* event whose reason is "Started" of another object of the namespace (the
\* watch is opened with empty ListOptions), the channel closed, or an event
\* whose object is not a *v1.Event (a watch.Error event carries a
\* *metav1.Status).  An event with another reason changes nothing.
Events == {"Started", "StartedOther", "closed", "status"}

\* for event := range watcher.ResultChan() {
\*   if event.Object.(*v1.Event).Reason == "Started" && ... == "Completed" {
AssessEvent ==
    /\ pc = "a_events"
    /\ \E ev \in Events :
        /\ ops' = Append(ops, OpOn("Assess", "Event", "events", ev, podlist[idx].name, 0))
        /\ CASE ev \in {"Started", "StartedOther"} ->
                  pc' = "a_logs" /\ UNCHANGED <<idx, stepState, tFailed, watchers>>
             [] ev = "closed" ->
                  pc' = "a_pod" /\ idx' = idx + 1 /\ UNCHANGED <<stepState, tFailed, watchers>>
             [] ev = "status" ->
                  EndAssess("panic", TRUE) /\ UNCHANGED idx
    /\ UNCHANGED <<tc, cluster, nsPods, podlist, errorpod, successpod, podlogstring, cli, fx, wf>>

Space == {" ", "\n"}

\* strings.TrimSpace(s): s without its leading and trailing white space.
RECURSIVE TrimLeft(_)
TrimLeft(s) == IF s # <<>> /\ Head(s) \in Space THEN TrimLeft(Tail(s)) ELSE s

RECURSIVE TrimRight(_)
TrimRight(s) ==
    IF s # <<>> /\ s[Len(s)] \in Space THEN TrimRight(SubSeq(s, 1, Len(s) - 1)) ELSE s

TrimSpace(s) == TrimRight(TrimLeft(s))

\* strings.Contains(s, substr)
Contains(s, substr) ==
    \E k \in 0..(Len(s) - Len(substr)) : SubSeq(s, k + 1, k + Len(substr)) = substr

\* req := ...GetLogs(i.ObjectMeta.Name, ...); podLogs, err := req.Stream(ctx)
\* (t.Fatal on err); defer podLogs.Close(); _, err = io.Copy(buf, podLogs)
\* (t.Fatal on err); podlogstring = strings.TrimSpace(buf.String()); break
AssessGetLogs ==
    /\ pc = "a_logs"
    /\ \/ \E res \in {"streamErr", "copyErr"} :
            /\ ops' = Append(ops, OpOn("Assess", "GetLogs", "log", res, podlist[idx].name, 0))
            /\ EndAssess("failnow", TRUE)
            /\ UNCHANGED <<idx, podlogstring>>
       \/ \E raw \in RawLogs :
            /\ ops' = Append(ops, OpOn("Assess", "GetLogs", "log", "ok", podlist[idx].name, 0))
            /\ podlogstring' = TrimSpace(raw)
            /\ pc' = "a_pod"
            /\ idx' = idx + 1
            /\ UNCHANGED <<stepState, tFailed, watchers>>
    /\ UNCHANGED <<tc, cluster, nsPods, podlist, errorpod, successpod, cli, fx, wf>>

\* if errorpod == len(podlist.Items) && successpod == 0 { t.Errorf("Job Failed to Start pod") }
AssessCheckAllErrored ==
    /\ pc = "a_chk_allerr"
    /\ LET bad == errorpod = Len(podlist) /\ successpod = 0 IN
        /\ ops' = Append(ops, Op("Assess", "Check", "allErrored", IF bad THEN "fail" ELSE "pass"))
        /\ tFailed' = IF bad THEN MarkFailed(tFailed, "Assess") ELSE tFailed
    /\ pc' = "a_chk_skip"
    /\ UNCHANGED <<tc, cluster, nsPods, assessLocals, stepState, cli, fx, wf>>

\* AssessCheckSkip with the bound on errorpod off by one (errorpod > 1).
AssessCheckSkipOffByOne ==
    /\ pc = "a_chk_skip"
    /\ LET skip == successpod = 1 /\ errorpod > 1 IN
        /\ ops' = Append(ops, Op("Assess", "Check", "skip", IF skip THEN "skip" ELSE "pass"))
        /\ IF skip
           THEN EndAssess("skipnow", FALSE)
           ELSE pc' = "a_chk_log" /\ UNCHANGED <<stepState, tFailed, watchers>>
    /\ UNCHANGED <<tc, cluster, nsPods, podlist, idx, errorpod, successpod, podlogstring, cli, fx, wf>>

\* if successpod == 1 && errorpod >= 1 { t.Skip("Expected Completed status on all pods") }
AssessCheckSkip ==
    /\ pc = "a_chk_skip"
    /\ LET skip == successpod = 1 /\ errorpod >= 1 IN
        /\ ops' = Append(ops, Op("Assess", "Check", "skip", IF skip THEN "skip" ELSE "pass"))
        /\ IF skip
           THEN EndAssess("skipnow", FALSE)
           ELSE pc' = "a_chk_log" /\ UNCHANGED <<stepState, tFailed, watchers>>
    /\ UNCHANGED <<tc, cluster, nsPods, podlist, idx, errorpod, successpod, podlogstring, cli, fx, wf>>

\* AssessCheckLog looking for "3.1" in place of "3.14".
AssessCheckLogShort ==
    /\ pc = "a_chk_log"
    /\ LET good == Contains(podlogstring, <<"3", ".", "1">>) IN
        /\ ops' = Append(ops, Op("Assess", "Check", "log", IF good THEN "pass" ELSE "fail"))
        /\ EndAssess("returned", ~good)
    /\ UNCHANGED <<tc, cluster, nsPods, podlist, idx, errorpod, successpod, podlogstring, cli, fx, wf>>

\* if strings.Contains(podlogstring, "3.14") { log.Printf(...) } else
\* { t.Errorf("Job Created pod with Invalid log") }; return ctx
AssessCheckLog ==
    /\ pc = "a_chk_log"
    /\ LET good == Contains(podlogstring, <<"3", ".", "1", "4">>) IN
        /\ ops' = Append(ops, Op("Assess", "Check", "log", IF good THEN "pass" ELSE "fail"))
        /\ EndAssess("returned", ~good)
    /\ UNCHANGED <<tc, cluster, nsPods, podlist, idx, errorpod, successpod, podlogstring, cli, fx, wf>>

Assess ==
    \/ AssessList
    \/ AssessHasPodVM
    \/ AssessExec
    \/ AssessNewClientset
    \/ AssessJobPod
    \/ AssessWatch
    \/ AssessEvent
    \/ AssessGetLogs
    \/ AssessCheckAllErrored
    \/ AssessCheckSkip
    \/ AssessCheckLog

\* -------------------------------------------------------------- Teardown
\* if err := ...List(context.TODO(), &podlist); err != nil { t.Fatal(err) }
TeardownList ==
    /\ pc = "t_list"
    /\ \E res \in {"ok", "err"} :
        /\ ops' = Append(ops, Op("Teardown", "List", "pods", res))
        /\ IF res = "err"
           THEN Fatal("Teardown") /\ UNCHANGED podlist
           ELSE podlist' = Listing /\ pc' = "t_client" /\ UNCHANGED <<stepState, tFailed>>
    /\ UNCHANGED <<tc, cluster, nsPods, idx, errorpod, successpod, podlogstring, watchers, cli, fx, wf>>

\* client, err := cfg.NewClient(); if err != nil { t.Fatal(err) }
TeardownNewClient ==
    /\ pc = "t_client"
    /\ \E res \in {"ok", "err"} :
        /\ ops' = Append(ops, Op("Teardown", "NewClient", "client", res))
        /\ IF res = "err" THEN Fatal("Teardown")
           ELSE pc' = "t_pod" /\ UNCHANGED <<stepState, tFailed>>
    /\ UNCHANGED <<tc, cluster, nsPods, assessLocals, cli, fx, wf>>

\* What client.Resources().Delete(ctx, obj) may return: an error always
\* when the object is not there (NotFound), otherwise nil or an error.
DeleteResults(there) == IF there THEN {"ok", "err"} ELSE {"err"}

\* TeardownDelete with the error reported by t.Errorf: Teardown goes on.
TeardownDeleteErrorf(present, obj, next) ==
    IF present
    THEN \E res \in DeleteResults(obj \in cluster) :
            /\ ops' = Append(ops, Op("Teardown", "Delete", obj, res))
            /\ cluster' = IF res = "err" THEN cluster ELSE cluster \ {obj}
            /\ tFailed' = IF res = "err" THEN MarkFailed(tFailed, "Teardown") ELSE tFailed
            /\ pc' = next
            /\ UNCHANGED stepState
    ELSE pc' = next /\ UNCHANGED <<ops, cluster, stepState, tFailed>>

\* A conditional delete of Teardown: Delete(ctx, obj) when `present`,
\* t.Fatal on its error; then on to statement `next`.
TeardownDelete(present, obj, next) ==
    IF present
    THEN \E res \in DeleteResults(obj \in cluster) :
            /\ ops' = Append(ops, Op("Teardown", "Delete", obj, res))
            /\ IF res = "err"
               THEN Fatal("Teardown") /\ UNCHANGED cluster
               ELSE /\ cluster' = cluster \ {obj}
                    /\ pc' = next
                    /\ UNCHANGED <<stepState, tFailed>>
    ELSE pc' = next /\ UNCHANGED <<ops, cluster, stepState, tFailed>>

\* if tc.job == nil { Delete(tc.pod) }
TeardownDeletePod ==
    /\ pc = "t_pod"
    /\ TeardownDelete(~tc.job, "pod", "t_cm")
    /\ UNCHANGED <<tc, nsPods, assessLocals, cli, fx, wf>>

\* if tc.configMap != nil { Delete(tc.configMap) }
TeardownDeleteConfigMap ==
    /\ pc = "t_cm"
    /\ TeardownDelete(tc.configMap, "configMap", "t_secret")
    /\ UNCHANGED <<tc, nsPods, assessLocals, cli, fx, wf>>

\* if tc.secret != nil { Delete(tc.secret) }
TeardownDeleteSecret ==
    /\ pc = "t_secret"
    /\ TeardownDelete(tc.secret, "secret", "t_job")
    /\ UNCHANGED <<tc, nsPods, assessLocals, cli, fx, wf>>

\* if tc.job != nil { Delete(tc.job); for _, i := range podlist.Items ... }
\* and, without a job, return ctx.
TeardownDeleteJob ==
    /\ pc = "t_job"
    /\ IF tc.job
       THEN TeardownDelete(TRUE, "job", "t_jobpods") /\ idx' = 1
       ELSE End("Teardown", "returned", FALSE) /\ UNCHANGED <<ops, cluster, idx>>
    /\ UNCHANGED <<tc, nsPods, podlist, errorpod, successpod, podlogstring, watchers, cli, fx, wf>>

WithoutPod(pods, name) == SelectSeq(pods, LAMBDA p : p.name # name)

\* TeardownDeleteJobPod with a break after the first pod deleted.
TeardownDeleteJobPodBreak ==
    /\ pc = "t_jobpods"
    /\ IF idx > Len(podlist)
       THEN End("Teardown", "returned", FALSE) /\ UNCHANGED <<ops, nsPods, idx>>
       ELSE LET i == podlist[idx] IN
            IF ~i.jobName
            THEN idx' = idx + 1 /\ UNCHANGED <<ops, nsPods, pc, stepState, tFailed>>
            ELSE \E res \in DeleteResults(InListing(nsPods, i.name)) :
                   /\ ops' = Append(ops, OpOn("Teardown", "Delete", "jobpod", res, i.name, 0))
                   /\ IF res = "err"
                      THEN Fatal("Teardown") /\ UNCHANGED <<nsPods, idx>>
                      ELSE /\ nsPods' = WithoutPod(nsPods, i.name)
                           /\ idx' = idx + 1
                           /\ End("Teardown", "returned", FALSE)
    /\ UNCHANGED <<tc, cluster, podlist, errorpod, successpod, podlogstring, watchers, cli, fx, wf>>

\* One round of for _, i := range podlist.Items { if i.ObjectMeta.Labels
\* ["job-name"] == tc.job.Name { Delete(ctx, &i) } }, and the return ctx
\* after the last.
TeardownDeleteJobPod ==
    /\ pc = "t_jobpods"
    /\ IF idx > Len(podlist)
       THEN End("Teardown", "returned", FALSE) /\ UNCHANGED <<ops, nsPods, idx>>
       ELSE LET i == podlist[idx] IN
            IF ~i.jobName
            THEN idx' = idx + 1 /\ UNCHANGED <<ops, nsPods, pc, stepState, tFailed>>
            ELSE \E res \in DeleteResults(InListing(nsPods, i.name)) :
                   /\ ops' = Append(ops, OpOn("Teardown", "Delete", "jobpod", res, i.name, 0))
                   /\ IF res = "err"
                      THEN Fatal("Teardown") /\ UNCHANGED <<nsPods, idx>>
                      ELSE /\ nsPods' = WithoutPod(nsPods, i.name)
                           /\ idx' = idx + 1
                           /\ UNCHANGED <<pc, stepState, tFailed>>
    /\ UNCHANGED <<tc, cluster, podlist, errorpod, successpod, podlogstring, watchers, cli, fx, wf>>

Teardown ==
    \/ TeardownList
    \/ TeardownNewClient
    \/ TeardownDeletePod
    \/ TeardownDeleteConfigMap
    \/ TeardownDeleteSecret
    \/ TeardownDeleteJob
    \/ TeardownDeleteJobPod

\* --------------------------------------------- cluster-provisioner: main
\* -action: the three actions main knows, and any other value.
Actions == {"provision", "deprovision", "uploadimage", "status"}

\* CLOUD_PROVIDER
Providers == {"ibmcloud", "libvirt", ""}

\* TEST_E2E_PODVM_IMAGE
Images == {"", "/root/e2e-test-image.qcow2"}

\* The -action argument of the command line: absent (<<>>) or given.
Flags == {<<>>} \cup {<<a>> : a \in Actions}

\* flag.String("action", "provision", "string") after flag.Parse(): the
\* value given on the command line, the default when none is.
flagString(default, flag) == IF flag = <<>> THEN default ELSE flag[1]

\* The process before main runs (status -1: still running); action is the
\* value *action will have.
CliStart(provider, image, flag) ==
    [pc |-> "start", cloudProvider |-> provider, podvmImage |-> image,
     flag |-> flag, action |-> flagString("provision", flag),
     calls |-> <<>>, status |-> -1]

\* The command is not run.
CliIdle == [CliStart("", "", <<>>) EXCEPT !.pc = "exit", !.status = 0]

Call(m, res) == [m |-> m, res |-> res]

\* os.Exit(code)
Exit(c, code) == [c EXCEPT !.pc = "exit", !.status = code]

\* A call of main that may return an error:
\* if err := m(...); err != nil { log; os.Exit(1) }, then on to `next`.
MainCall(m, next) ==
    /\ \E res \in {"ok", "err"} :
        LET c == [cli EXCEPT !.calls = Append(@, Call(m, res))]
        IN  cli' = IF res = "err" THEN Exit(c, 1) ELSE [c EXCEPT !.pc = next]
    /\ UNCHANGED <<runVars, fx, wf>>

\* if *action == name { ... }: into the block at `then`, or past it to `else`.
MainIf(name, then, else) ==
    /\ cli' = [cli EXCEPT !.pc = IF cli.action = name THEN then ELSE else]
    /\ UNCHANGED <<runVars, fx, wf>>

\* What os.Stat(path) gives: the file is there, it does not exist, or
\* another error (permission, I/O); the empty path never exists.
StatResults(path) == IF path = "" THEN {"notexist"} ELSE {"ok", "notexist", "othererr"}

\* if _, err := os.Stat(podvmImage); os.IsNotExist(err) { log.Error(err); os.Exit(1) }
MainStat(next) ==
    /\ \E res \in StatResults(cli.podvmImage) :
        LET c == [cli EXCEPT !.calls = Append(@, Call("Stat", res))]
        IN  cli' = IF res = "notexist" THEN Exit(c, 1) ELSE [c EXCEPT !.pc = next]
    /\ UNCHANGED <<runVars, fx, wf>>

\* provisioner, err := pv.GetCloudProvisioner(cloudProvider, provisionPropsFile)
\* then action := flag.String("action", "provision", "string"); flag.Parse()
MainGetCloudProvisioner ==
    /\ cli.pc = "start"
    /\ MainCall("GetCloudProvisioner", "if_provision")

\* if *action == "provision" {
MainIfProvision ==
    /\ cli.pc = "if_provision"
    /\ MainIf("provision", "p_vpc", "if_deprovision")

MainCreateVPC ==
    /\ cli.pc = "p_vpc"
    /\ MainCall("CreateVPC", "p_cluster")

\* MainCreateCluster with a rollback: when CreateCluster fails the network
\* is deleted before the exit.
MainCreateClusterRollback ==
    /\ cli.pc = "p_cluster"
    /\ \E res \in {"ok", "err"} :
        LET c == [cli EXCEPT !.calls = Append(@, Call("CreateCluster", res))]
        IN  cli' = IF res = "err"
                   THEN Exit([c EXCEPT !.calls = Append(@, Call("DeleteVPC", "ok"))], 1)
                   ELSE [c EXCEPT !.pc = "p_image"]
    /\ UNCHANGED <<runVars, fx, wf>>

\* MainCreateCluster with the error of CreateCluster ignored.
MainCreateClusterUnchecked ==
    /\ cli.pc = "p_cluster"
    /\ \E res \in {"ok", "err"} :
        cli' = [cli EXCEPT !.calls = Append(@, Call("CreateCluster", res)), !.pc = "p_image"]
    /\ UNCHANGED <<runVars, fx, wf>>

MainCreateCluster ==
    /\ cli.pc = "p_cluster"
    /\ MainCall("CreateCluster", "p_image")

\* if podvmImage != "" {
MainIfImage ==
    /\ cli.pc = "p_image"
    /\ cli' = [cli EXCEPT !.pc = IF cli.podvmImage # "" THEN "p_stat" ELSE "p_adaptor"]
    /\ UNCHANGED <<runVars, fx, wf>>

MainProvisionStat ==
    /\ cli.pc = "p_stat"
    /\ MainStat("p_upload")

MainProvisionUpload ==
    /\ cli.pc = "p_upload"
    /\ MainCall("UploadPodvm", "p_adaptor")

\* cloudAPIAdaptor, err := pv.NewCloudAPIAdaptor(cloudProvider)
MainNewCloudAPIAdaptor ==
    /\ cli.pc = "p_adaptor"
    /\ MainCall("NewCloudAPIAdaptor", "p_deploy")

\* cloudAPIAdaptor.Deploy(ctx, cfg, provisioner.GetProperties(ctx, cfg))
MainDeploy ==
    /\ cli.pc = "p_deploy"
    /\ \E res \in {"ok", "err"} :
        LET c == [cli EXCEPT !.calls = @ \o <<Call("GetProperties", "ok"), Call("Deploy", res)>>]
        IN  cli' = IF res = "err" THEN Exit(c, 1) ELSE [c EXCEPT !.pc = "if_deprovision"]
    /\ UNCHANGED <<runVars, fx, wf>>

\* if *action == "deprovision" {
MainIfDeprovision ==
    /\ cli.pc = "if_deprovision"
    /\ MainIf("deprovision", "d_cluster", "if_uploadimage")

\* MainDeleteCluster with the error of DeleteCluster ignored.
MainDeleteClusterUnchecked ==
    /\ cli.pc = "d_cluster"
    /\ \E res \in {"ok", "err"} :
        cli' = [cli EXCEPT !.calls = Append(@, Call("DeleteCluster", res)), !.pc = "d_vpc"]
    /\ UNCHANGED <<runVars, fx, wf>>

MainDeleteCluster ==
    /\ cli.pc = "d_cluster"
    /\ MainCall("DeleteCluster", "d_vpc")

MainDeleteVPC ==
    /\ cli.pc = "d_vpc"
    /\ MainCall("DeleteVPC", "if_uploadimage")

\* MainIfUploadimage as the else of the two tests before it.
MainIfUploadimageElse ==
    /\ cli.pc = "if_uploadimage"
    /\ cli' = [cli EXCEPT !.pc = IF cli.action \notin {"provision", "deprovision"}
                                 THEN "u_stat" ELSE "return"]
    /\ UNCHANGED <<runVars, fx, wf>>

\* if *action == "uploadimage" {
MainIfUploadimage ==
    /\ cli.pc = "if_uploadimage"
    /\ MainIf("uploadimage", "u_stat", "return")

MainUploadStat ==
    /\ cli.pc = "u_stat"
    /\ MainStat("u_upload")

MainUpload ==
    /\ cli.pc = "u_upload"
    /\ MainCall("UploadPodvm", "return")

\* main returns: the process exits with status 0.
MainReturn ==
    /\ cli.pc = "return"
    /\ cli' = Exit(cli, 0)
    /\ UNCHANGED <<runVars, fx, wf>>

Main ==
    \/ MainGetCloudProvisioner
    \/ MainIfProvision
    \/ MainCreateVPC
    \/ MainCreateCluster
    \/ MainIfImage
    \/ MainProvisionStat
    \/ MainProvisionUpload
    \/ MainNewCloudAPIAdaptor
    \/ MainDeploy
    \/ MainIfDeprovision
    \/ MainDeleteCluster
    \/ MainDeleteVPC
    \/ MainIfUploadimage
    \/ MainUploadStat
    \/ MainUpload
    \/ MainReturn

\* -------------------------------------------------------------- fixtures
\* envconf.RandomName("default", 7)
Namespaces == {"default-a1b2", "default-c3d4"}

Names == {"nginx", "user-pod"}

\* The runtimeclass argument of newBuilderPod and newUserPod.
RuntimeClasses == {"kata-remote", "kata"}

ClusterIPs == {"10.0.0.5"}

\* A nil pointer, and a pointer to v.
Nil == <<>>
Ref(v) == <<v>>

\* corev1.Container, corev1.VolumeMount, corev1.Volume (the fields the
\* builders set).
Container(name, image) ==
    [name |-> name, image |-> image, command |-> <<>>, args |-> <<>>,
     volumeMounts |-> <<>>, env |-> <<>>]

VolumeMount(name, mountPath) == [name |-> name, mountPath |-> mountPath]

Volume(name, kind, ref) == [name |-> name, source |-> kind, ref |-> ref]

\* type podOption func(*corev1.Pod): an option is kept as its maker's name
\* and arguments, and ApplyOption is its call on a pod.
withRestartPolicy(restartPolicy) ==
    [option |-> "withRestartPolicy", a |-> restartPolicy, b |-> "", c |-> <<>>]

withCommand(command) ==
    [option |-> "withCommand", a |-> "", b |-> "", c |-> command]

withConfigMapBinding(mountPath, configMapName) ==
    [option |-> "withConfigMapBinding", a |-> mountPath, b |-> configMapName, c |-> <<>>]

withSecretBinding(mountPath, secretName) ==
    [option |-> "withSecretBinding", a |-> mountPath, b |-> secretName, c |-> <<>>]

ApplyOption(o, p) ==
    CASE o.option = "withRestartPolicy" -> [p EXCEPT !.restartPolicy = o.a]
      [] o.option = "withCommand" -> [p EXCEPT !.containers[1].command = o.c]
      [] o.option = "withConfigMapBinding" ->
            [p EXCEPT !.containers[1].volumeMounts =
                          Append(@, VolumeMount("config-volume", o.a)),
                      !.volumes = Append(@, Volume("config-volume", "configMap", o.b))]
      [] o.option = "withSecretBinding" ->
            [p EXCEPT !.containers[1].volumeMounts =
                          Append(@, VolumeMount("secret-volume", o.a)),
                      !.volumes = Append(@, Volume("secret-volume", "secret", o.b))]

\* for _, option := range options { option(pod) }
RECURSIVE ApplyOptions(_, _)
ApplyOptions(options, p) ==
    IF options = <<>> THEN p
    ELSE ApplyOptions(Tail(options), ApplyOption(Head(options), p))

newPod(namespace, podName, containerName, imageName, options) ==
    LET runtimeClassName == "kata-remote" IN
    ApplyOptions(options,
        [name |-> podName, namespace |-> namespace,
         containers |-> <<Container(containerName, imageName)>>,
         volumes |-> <<>>, restartPolicy |-> "", dnsPolicy |-> "",
         runtimeClassName |-> Ref(runtimeClassName)])

newNginxPod(namespace) ==
    newPod(namespace, "nginx", "nginx", "nginx", <<withRestartPolicy("Never")>>)

newBusyboxPod(namespace) ==
    newPod(namespace, "busybox-pod", "busybox", "quay.io/prometheus/busybox:latest",
           <<withCommand(<<"/bin/sh", "-c", "sleep 3600">>)>>)

newNginxPodWithConfigMap(namespace, configMapName) ==
    newPod(namespace, "nginx-configmap-pod", "nginx-configmap", "nginx",
           <<withRestartPolicy("Never"), withConfigMapBinding("/etc/config", configMapName)>>)

newNginxPodWithSecret(namespace, secretName) ==
    newPod(namespace, "nginx-secret-pod", "nginx-secret", "nginx",
           <<withRestartPolicy("Never"), withSecretBinding("/etc/secret", secretName)>>)

\* Data is kept as a sequence of <<key, value>> pairs.
newConfigMap(namespace, name, configMapData) ==
    [name |-> name, namespace |-> namespace, data |-> configMapData]

\* The container is named `name`; containerName and runtimeclass are not
\* used, and RuntimeClassName is left nil.
newBuilderPod(namespace, name, containerName, runtimeclass, configmapname, clusterIP) ==
    [name |-> name, namespace |-> namespace,
     containers |-> <<[name |-> name,
                       image |-> "gcr.io/kaniko-project/executor:latest",
                       command |-> <<>>,
                       args |-> <<"--custom-platform=linux/amd64",
                                  "--dockerfile=/build-context/Dockerfile",
                                  "--context=dir:///build-context",
                                  "--destination=" \o clusterIP \o ":5000/user-image:latest">>,
                       volumeMounts |-> <<VolumeMount(configmapname, "/" \o configmapname)>>,
                       env |-> <<<<"DOCKER_CONFIG", "/kaniko/.docker/">>,
                                 <<"DOCKER_CONTENT_TRUST", "1">>>>]>>,
     volumes |-> <<Volume(configmapname, "configMap", configmapname)>>,
     restartPolicy |-> "Never", dnsPolicy |-> "",
     runtimeClassName |-> Nil]

newUserPod(namespace, name, containerName, runtimeclass, clusterIP) ==
    [name |-> name, namespace |-> namespace,
     containers |-> <<Container(containerName, clusterIP \o ":5000/user-image:latest")>>,
     volumes |-> <<>>, restartPolicy |-> "Never", dnsPolicy |-> "ClusterFirst",
     runtimeClassName |-> Ref(runtimeclass)]

\* The options a caller may pass to newPod.
PodOptions ==
    {withRestartPolicy("Never"), withRestartPolicy("Always"),
     withCommand(<<"/bin/sh", "-c", "sleep 3600">>),
     withConfigMapBinding("/etc/config", "nginx-config"),
     withSecretBinding("/etc/secret", "nginx-secret")}

\* What the last builder call made: the builder, the pod (in a sequence,
\* empty when none), and for a test function the config map, the
\* verification commands, and what running the commands gave: what each
\* command wrote (output), the buffer its predicate was handed (stdout) and
\* the predicate's answer (accepted).
Fixture(made, pod) ==
    [made |-> made, pod |-> <<pod>>, configMap |-> <<>>, testCommands |-> <<>>,
     output |-> <<>>, stdout |-> <<>>, accepted |-> <<>>, verdict |-> "none"]

\* No builder has been called.
FxIdle ==
    [made |-> "none", pod |-> <<>>, configMap |-> <<>>, testCommands |-> <<>>,
     output |-> <<>>, stdout |-> <<>>, accepted |-> <<>>, verdict |-> "none"]

FxKeep == UNCHANGED <<runVars, cli, wf>>

FxNewPod ==
    /\ fx.verdict = "none"
    /\ \E ns \in Namespaces, n \in Names, c \in ContainerNames,
          options \in SeqsUpTo(PodOptions, MaxOptions) :
        fx' = Fixture("newPod", newPod(ns, n, c, "nginx", options))
    /\ FxKeep

FxNewNginxPod ==
    /\ fx.verdict = "none"
    /\ \E ns \in Namespaces : fx' = Fixture("newNginxPod", newNginxPod(ns))
    /\ FxKeep

FxNewBusyboxPod ==
    /\ fx.verdict = "none"
    /\ \E ns \in Namespaces : fx' = Fixture("newBusyboxPod", newBusyboxPod(ns))
    /\ FxKeep

FxNewNginxPodWithConfigMap ==
    /\ fx.verdict = "none"
    /\ \E ns \in Namespaces, cm \in {"nginx-config", "other-config"} :
        fx' = Fixture("newNginxPodWithConfigMap", newNginxPodWithConfigMap(ns, cm))
    /\ FxKeep

FxNewNginxPodWithSecret ==
    /\ fx.verdict = "none"
    /\ \E ns \in Namespaces, sec \in {"nginx-secret", "other-secret"} :
        fx' = Fixture("newNginxPodWithSecret", newNginxPodWithSecret(ns, sec))
    /\ FxKeep

FxNewBuilderPod ==
    /\ fx.verdict = "none"
    /\ \E ns \in Namespaces, n \in Names, c \in ContainerNames, rc \in RuntimeClasses,
          ip \in ClusterIPs :
        fx' = Fixture("newBuilderPod", newBuilderPod(ns, n, c, rc, "build-context", ip))
    /\ FxKeep

FxNewUserPod ==
    /\ fx.verdict = "none"
    /\ \E ns \in Namespaces, n \in Names, c \in ContainerNames, rc \in RuntimeClasses,
          ip \in ClusterIPs :
        fx' = Fixture("newUserPod", newUserPod(ns, n, c, rc, ip))
    /\ FxKeep

\* The predicate of the ping test (doTestCreatePeerPodContainerWithExternalIPAccess):
\* any output is accepted.
StdoutFnNonEmpty(configMapContents, stdout) == stdout # ""

\* testCommandStdoutFn of doTestCreatePodWithConfigMap:
\* stdout.String() == configMapContents
configMapStdoutFn(configMapContents, stdout) == stdout = configMapContents

\* doTestCreatePodWithConfigMap up to run(): the test case that
\* newTestCase(...).withConfigMap(configMap).withTestCommands(testCommands)
\* makes.  The predicate closes over configMapContents, kept as `expects`.
doTestCreatePodWithConfigMap(namespace) ==
    LET configMapName == "nginx-config"
        configMapFileName == "example.txt"
        configMapPath == "/etc/config/" \o configMapFileName
        configMapContents == "Hello, world"
        configMapData == <<<<configMapFileName, configMapContents>>>>
        pod == newNginxPodWithConfigMap(namespace, configMapName)
        configMap == newConfigMap(namespace, configMapName, configMapData)
        testCommands ==
            <<[command |-> <<"cat", configMapPath>>,
               containerName |-> pod.containers[1].name,
               expects |-> configMapContents]>>
    IN  [Fixture("doTestCreatePodWithConfigMap", pod) EXCEPT
            !.configMap = <<configMap>>, !.testCommands = testCommands]

FxDoTestCreatePodWithConfigMap ==
    /\ fx.verdict = "none"
    /\ \E ns \in Namespaces : fx' = doTestCreatePodWithConfigMap(ns)
    /\ FxKeep

\* testCommandStdoutFn of doTestCreatePodWithSecret's two commands:
\* stdout.String() == username, stdout.String() == password
secretStdoutFn(expected, stdout) == stdout = expected

\* doTestCreatePodWithSecret up to run(): the secret itself is not kept.
doTestCreatePodWithSecret(namespace) ==
    LET secretName == "nginx-secret"
        podKubeSecretsDir == "/etc/secret/"
        usernameFileName == "username"
        username == "admin"
        usernamePath == podKubeSecretsDir \o usernameFileName
        passwordFileName == "password"
        password == "password"
        passwordPath == podKubeSecretsDir \o passwordFileName
        pod == newNginxPodWithSecret(namespace, secretName)
        testCommands ==
            <<[command |-> <<"cat", usernamePath>>,
               containerName |-> pod.containers[1].name,
               expects |-> username],
              [command |-> <<"cat", passwordPath>>,
               containerName |-> pod.containers[1].name,
               expects |-> password]>>
    IN  [Fixture("doTestCreatePodWithSecret", pod) EXCEPT !.testCommands = testCommands]

FxDoTestCreatePodWithSecret ==
    /\ fx.verdict = "none"
    /\ \E ns \in Namespaces : fx' = doTestCreatePodWithSecret(ns)
    /\ FxKeep

\* What a command may write to its stdout.
Stdouts ==
    {"Hello, world", "Hello, world\n", " Hello, world", "Hello", "",
     "Hello, world Hello, world", "admin", "password"}

\* The buffer had one declaration before the loop: a command's output is
\* written after the output of the commands before it.
StdoutBufferShared(earlier) == IF earlier = <<>> THEN "" ELSE earlier[Len(earlier)]

\* var stdout, stderr bytes.Buffer, declared in the body of the loop over
\* tc.testCommands: each command starts with an empty buffer, whatever the
\* buffers of the earlier commands held.
StdoutBuffer(earlier) == ""

\* The predicate of the test function's command c, applied to a buffer.
StdoutFn(made, c, stdout) ==
    IF made = "doTestCreatePodWithSecret"
    THEN secretStdoutFn(c.expects, stdout)
    ELSE configMapStdoutFn(c.expects, stdout)

\* One round of Assess's loop over the test case's commands: ExecInPod
\* writes the command's output to &stdout, then
\* if !testCommand.testCommandStdoutFn(stdout) { t.Fatal(...) }
FxExec ==
    /\ fx.verdict = "none"
    /\ Len(fx.stdout) < Len(fx.testCommands)
    /\ \E out \in Stdouts :
        LET n == Len(fx.stdout) + 1
            stdout == StdoutBuffer(fx.stdout) \o out
            ok == StdoutFn(fx.made, fx.testCommands[n], stdout)
        IN  fx' = [fx EXCEPT !.output = Append(@, out),
                             !.stdout = Append(@, stdout),
                             !.accepted = Append(@, ok),
                             !.verdict = IF ~ok THEN "fatal"
                                         ELSE IF n = Len(fx.testCommands) THEN "pass"
                                         ELSE "none"]
    /\ FxKeep

Fixtures ==
    \/ FxNewPod
    \/ FxNewNginxPod
    \/ FxNewBusyboxPod
    \/ FxNewNginxPodWithConfigMap
    \/ FxNewNginxPodWithSecret
    \/ FxNewBuilderPod
    \/ FxNewUserPod
    \/ FxDoTestCreatePodWithConfigMap
    \/ FxDoTestCreatePodWithSecret
    \/ FxExec

\* ---------------------------------------------------------- CI workflow
\* jobs: of azure-e2e-test.yml
GenVersion == "generate-podvm-image-version"
BuildPodvm == "build-podvm-image"
BuildCaa == "build-caa-container-image"
InstallAks == "install-aks"
RunE2e == "run-e2e-test"
Cleanup == "cleanup-resources"

Jobs == {GenVersion, BuildPodvm, BuildCaa, InstallAks, RunE2e, Cleanup}

\* needs: of job j, with run-e2e-test not waiting for install-aks.
NeedsE2eWithoutAks(j) ==
    CASE j = GenVersion -> {}
      [] j = BuildPodvm -> {GenVersion}
      [] j = BuildCaa -> {}
      [] j = InstallAks -> {GenVersion, BuildCaa}
      [] j = RunE2e -> {BuildPodvm, BuildCaa, GenVersion}
      [] j = Cleanup -> {GenVersion, BuildPodvm, BuildCaa, RunE2e}

\* needs: of job j.
Needs(j) ==
    CASE j = GenVersion -> {}
      [] j = BuildPodvm -> {GenVersion}
      [] j = BuildCaa -> {}
      [] j = InstallAks -> {GenVersion, BuildCaa}
      [] j = RunE2e -> {BuildPodvm, BuildCaa, InstallAks, GenVersion}
      [] j = Cleanup -> {GenVersion, BuildPodvm, BuildCaa, RunE2e}

\* A job has a result once it has ended or was skipped.
Concluded(w, j) == w.result[j] \in {"success", "failure", "cancelled", "skipped"}

\* success(): the run is not cancelled and every needed job succeeded.  It
\* is implied by an if: that calls no status function.
success(w, j) == ~w.cancelled /\ \A n \in Needs(j) : w.result[n] = "success"

\* JobIf with run-e2e-test's if: lacking always(), so that success() is
\* implied.
JobIfE2eSuccess(w, j) ==
    CASE j = GenVersion -> success(w, j) /\ w.podvmImageId = ""
      [] j = BuildPodvm -> success(w, j) /\ w.podvmImageId = ""
      [] j = BuildCaa -> success(w, j) /\ w.caaImage = ""
      [] j = InstallAks -> TRUE /\ ~w.cancelled /\ w.result[BuildCaa] # "failure"
      [] j = RunE2e -> success(w, j) /\ ~w.cancelled /\ w.result[BuildPodvm] # "failure"
      [] j = Cleanup -> TRUE

\* if: of job j (github.event.inputs.* are the run's inputs; always() is
\* true).
JobIf(w, j) ==
    CASE j = GenVersion -> success(w, j) /\ w.podvmImageId = ""
      [] j = BuildPodvm -> success(w, j) /\ w.podvmImageId = ""
      [] j = BuildCaa -> success(w, j) /\ w.caaImage = ""
      [] j = InstallAks -> TRUE /\ ~w.cancelled /\ w.result[BuildCaa] # "failure"
      [] j = RunE2e -> TRUE /\ ~w.cancelled /\ w.result[BuildPodvm] # "failure"
      [] j = Cleanup -> TRUE

\* The steps of cleanup-resources, in order (the first stands for checkout
\* and the two Go steps).
CleanupSteps ==
    <<"Set up", "Restore the configuration created before", "Az CLI login",
      "Run deprovisioner", "Remove podvm image", "Remove container image",
      "Remove AKS cluster">>

\* What the run may create in the cloud.
Resources == {"cluster", "podvmImage", "caaImage"}

\* A run of the workflow dispatched with the two inputs: no job has started.
\* made and exists are the resources the run has created and those still
\* there, ran the cleanup steps whose delete command was run and deleted
\* what those commands named; version is the image-version output of
\* generate-podvm-image-version ("" while there is none).
WfStart(podvmImageId, caaImage) ==
    [podvmImageId |-> podvmImageId, caaImage |-> caaImage, cancelled |-> FALSE,
     result |-> [j \in Jobs |-> "pending"],
     aksStep |-> "Set up", cleanupStep |-> 1, cleanupOk |-> TRUE,
     artifact |-> FALSE, made |-> {}, exists |-> {}, ran |-> {}, overlap |-> FALSE,
     version |-> "", deleted |-> {}]

\* No run of the workflow.
WfIdle ==
    [WfStart("", "") EXCEPT !.result = [j \in Jobs |-> "skipped"], !.cleanupStep = 8]

WfKeep == UNCHANGED <<runVars, cli, fx>>

\* Job j, one of install-aks and build-podvm-image, would start while the
\* other is running (kept in the history field overlap).
RunsBeside(w, j) ==
    \/ j = InstallAks /\ w.result[BuildPodvm] = "running"
    \/ j = BuildPodvm /\ w.result[InstallAks] = "running"

\* Job j is taken up once every job it needs has a result: it runs when its
\* if: holds and is skipped otherwise.
StartJob(j) ==
    /\ wf.result[j] = "pending"
    /\ \A n \in Needs(j) : Concluded(wf, n)
    /\ wf' = [wf EXCEPT !.result[j] = IF JobIf(wf, j) THEN "running" ELSE "skipped",
                         !.overlap = @ \/ (JobIf(wf, j) /\ RunsBeside(wf, j))]
    /\ WfKeep

\* Job j ends with result res, having created the resources in new.
EndJob(j, res, new) ==
    wf' = [wf EXCEPT !.result[j] = res, !.made = @ \cup new, !.exists = @ \cup new]

WfStartGenVersion ==
    /\ wf.result[GenVersion] = "pending"
    /\ StartJob(GenVersion)

WfStartBuildPodvm ==
    /\ wf.result[BuildPodvm] = "pending"
    /\ StartJob(BuildPodvm)

WfStartBuildCaa ==
    /\ wf.result[BuildCaa] = "pending"
    /\ StartJob(BuildCaa)

WfStartInstallAks ==
    /\ wf.result[InstallAks] = "pending"
    /\ StartJob(InstallAks)

WfStartRunE2e ==
    /\ wf.result[RunE2e] = "pending"
    /\ StartJob(RunE2e)

WfStartCleanup ==
    /\ wf.result[Cleanup] = "pending"
    /\ StartJob(Cleanup)

\* generate-podvm-image-version: its one step, which writes the output
\* image-version=${unique_version}.
WfGenVersion ==
    /\ wf.result[GenVersion] = "running"
    /\ \/ wf' = [wf EXCEPT !.result[GenVersion] = "success", !.version = "unique_version"]
       \/ EndJob(GenVersion, "failure", {})
    /\ WfKeep

\* build-podvm-image (a reusable workflow): a build that succeeds has
\* published the image version, one that fails may have.
WfBuildPodvm ==
    /\ wf.result[BuildPodvm] = "running"
    /\ \/ EndJob(BuildPodvm, "success", {"podvmImage"})
       \/ \E new \in {{}, {"podvmImage"}} : EndJob(BuildPodvm, "failure", new)
    /\ WfKeep

\* build-caa-container-image: make image pushes the image.
WfBuildCaa ==
    /\ wf.result[BuildCaa] = "running"
    /\ \/ EndJob(BuildCaa, "success", {"caaImage"})
       \/ \E new \in {{}, {"caaImage"}} : EndJob(BuildCaa, "failure", new)
    /\ WfKeep

\* install-aks, the steps before "Save the configuration created here".
WfAksSetUp ==
    /\ wf.result[InstallAks] = "running"
    /\ wf.aksStep = "Set up"
    /\ \/ wf' = [wf EXCEPT !.aksStep = "Save the configuration created here"]
       \/ EndJob(InstallAks, "failure", {})
    /\ WfKeep

\* actions/upload-artifact: name: e2e-configuration
WfAksSaveConfiguration ==
    /\ wf.result[InstallAks] = "running"
    /\ wf.aksStep = "Save the configuration created here"
    /\ \/ wf' = [wf EXCEPT !.artifact = TRUE, !.aksStep = "Run provisioner"]
       \/ EndJob(InstallAks, "failure", {})
    /\ WfKeep

\* Az CLI login, then ./caa-provisioner-cli -action=createcluster: a failed
\* creation may leave a cluster behind.
WfAksRunProvisioner ==
    /\ wf.result[InstallAks] = "running"
    /\ wf.aksStep = "Run provisioner"
    /\ \/ EndJob(InstallAks, "success", {"cluster"})
       \/ \E new \in {{}, {"cluster"}} : EndJob(InstallAks, "failure", new)
    /\ WfKeep

\* run-e2e-test: its steps, as one.
WfRunE2e ==
    /\ wf.result[RunE2e] = "running"
    /\ \E res \in {"success", "failure"} : EndJob(RunE2e, res, {})
    /\ WfKeep

\* A step of cleanup-resources has no if: of its own, or one that calls no
\* status function: success() is implied, and the step runs only while no
\* earlier step of the job has failed.
StepRuns(w) == w.cleanupOk

\* The job goes on to its next step; after the last it ends, failed when a
\* step has failed.
CleanupNext(w) ==
    IF w.cleanupStep < Len(CleanupSteps)
    THEN [w EXCEPT !.cleanupStep = @ + 1]
    ELSE [w EXCEPT !.cleanupStep = @ + 1,
                   !.result[Cleanup] = IF w.cleanupOk THEN "success" ELSE "failure"]

AtCleanupStep(name) ==
    /\ wf.result[Cleanup] = "running"
    /\ wf.cleanupStep <= Len(CleanupSteps)
    /\ CleanupSteps[wf.cleanupStep] = name

\* A step that runs a command which may fail, and fails with it.
CleanupPlainStep(canSucceed) ==
    /\ IF StepRuns(wf)
       THEN \E ok \in (IF canSucceed THEN {TRUE, FALSE} ELSE {FALSE}) :
              wf' = CleanupNext([wf EXCEPT !.cleanupOk = ok])
       ELSE wf' = CleanupNext(wf)
    /\ WfKeep

\* What the delete command of step `name` names: the image version of
\* needs.generate-podvm-image-version.outputs.image-version, the image
\* cloud-api-adaptor:dev-${GITHUB_SHA}, the cluster ${CLUSTER_NAME}.
Target(w, name) ==
    CASE name = "Remove podvm image" -> [kind |-> "podvmImage", id |-> w.version]
      [] name = "Remove container image" ->
            [kind |-> "caaImage", id |-> "cloud-api-adaptor:dev-GITHUB_SHA"]
      [] OTHER -> [kind |-> "cluster", id |-> "CLUSTER_NAME"]

\* A step `name` whose command is followed by || true: the step cannot
\* fail, and its command deletes `res` or fails to (it deletes nothing when
\* what it names is empty).
CleanupDeleteStep(name, cond, res) ==
    /\ IF StepRuns(wf) /\ cond
       THEN \E gone \in (IF Target(wf, name).id = "" THEN {{}} ELSE {{}, {res}}) :
              wf' = CleanupNext([wf EXCEPT !.ran = @ \cup {name},
                                           !.deleted = @ \cup {Target(wf, name)},
                                           !.exists = @ \ gone])
       ELSE wf' = CleanupNext(wf)
    /\ WfKeep

\* actions/checkout, Extract go version number, Set up Go environment
WfCleanupSetUp ==
    /\ AtCleanupStep("Set up")
    /\ CleanupPlainStep(TRUE)

\* actions/download-artifact: name: e2e-configuration; it fails when
\* install-aks has not uploaded the artifact.
WfCleanupRestore ==
    /\ AtCleanupStep("Restore the configuration created before")
    /\ CleanupPlainStep(wf.artifact)

WfCleanupLogin ==
    /\ AtCleanupStep("Az CLI login")
    /\ CleanupPlainStep(TRUE)

\* make caa-provisioner-cli (the step fails with it), then
\* ./caa-provisioner-cli -action=deprovision || true
WfCleanupDeprovision ==
    /\ AtCleanupStep("Run deprovisioner")
    /\ \/ CleanupDeleteStep("Run deprovisioner", TRUE, "cluster")
       \/ /\ StepRuns(wf)
          /\ wf' = CleanupNext([wf EXCEPT !.cleanupOk = FALSE])
          /\ WfKeep

\* WfCleanupRemovePodvm without the step's if:.
WfCleanupRemovePodvmAlways ==
    /\ AtCleanupStep("Remove podvm image")
    /\ CleanupDeleteStep("Remove podvm image", TRUE, "podvmImage")

\* if: github.event.inputs.podvm-image-id == ''
\* az sig image-version delete ... || true
WfCleanupRemovePodvm ==
    /\ AtCleanupStep("Remove podvm image")
    /\ CleanupDeleteStep("Remove podvm image", wf.podvmImageId = "", "podvmImage")

\* if: github.event.inputs.caa-image == ''
\* az acr repository delete ... || true
WfCleanupRemoveCaa ==
    /\ AtCleanupStep("Remove container image")
    /\ CleanupDeleteStep("Remove container image", wf.caaImage = "", "caaImage")

\* az aks delete ... --no-wait --yes || true
WfCleanupRemoveAks ==
    /\ AtCleanupStep("Remove AKS cluster")
    /\ CleanupDeleteStep("Remove AKS cluster", TRUE, "cluster")

\* What the running job j may have created when it is cancelled.
Underway(w, j) ==
    IF w.result[j] # "running" THEN {}
    ELSE CASE j = BuildPodvm -> {"podvmImage"}
           [] j = BuildCaa -> {"caaImage"}
           [] j = InstallAks -> IF w.aksStep = "Run provisioner" THEN {"cluster"} ELSE {}
           [] OTHER -> {}

\* The run is cancelled: the running jobs are cancelled, but for
\* cleanup-resources whose if: always() keeps it running; the pending jobs
\* are taken up as their needs get a result.
WfCancel ==
    /\ ~wf.cancelled
    /\ \E j \in Jobs : ~Concluded(wf, j)
    /\ \E new \in SUBSET (UNION {Underway(wf, j) : j \in Jobs}) :
        wf' = [wf EXCEPT !.cancelled = TRUE,
                         !.result = [j \in Jobs |->
                                        IF @[j] = "running" /\ j # Cleanup
                                        THEN "cancelled" ELSE @[j]],
                         !.made = @ \cup new, !.exists = @ \cup new]
    /\ WfKeep

Workflow ==
    \/ WfStartGenVersion
    \/ WfStartBuildPodvm
    \/ WfStartBuildCaa
    \/ WfStartInstallAks
    \/ WfStartRunE2e
    \/ WfStartCleanup
    \/ WfGenVersion
    \/ WfBuildPodvm
    \/ WfBuildCaa
    \/ WfAksSetUp
    \/ WfAksSaveConfiguration
    \/ WfAksRunProvisioner
    \/ WfRunE2e
    \/ WfCleanupSetUp
    \/ WfCleanupRestore
    \/ WfCleanupLogin
    \/ WfCleanupDeprovision
    \/ WfCleanupRemovePodvm
    \/ WfCleanupRemoveCaa
    \/ WfCleanupRemoveAks
    \/ WfCancel

\* -------------------------------------------------------- specifications
\* One run of testCase.run.
Init == RunInit /\ cli = CliIdle /\ fx = FxIdle /\ wf = WfIdle

Next == Setup \/ OtherWriter \/ Assess \/ Teardown

Spec == Init /\ [][Next]_vars

\* One run of the cluster-provisioner command.
MainInit ==
    /\ RunIdle
    /\ \E p \in Providers, i \in Images, f \in Flags : cli = CliStart(p, i, f)
    /\ fx = FxIdle
    /\ wf = WfIdle

MainSpec == MainInit /\ [][Main]_vars

\* Calls of the fixture builders and of the config-map test function.
FixtureInit == RunIdle /\ cli = CliIdle /\ fx = FxIdle /\ wf = WfIdle

FixtureSpec == FixtureInit /\ [][Fixtures]_vars

\* One run of the CI workflow, dispatched with or without prebuilt images.
WorkflowInit ==
    /\ RunIdle
    /\ cli = CliIdle
    /\ fx = FxIdle
    /\ \E p \in {"", "podvm-image-id"}, c \in {"", "caa-image"} : wf = WfStart(p, c)

WorkflowSpec == WorkflowInit /\ [][Workflow]_vars

\* ---------------------------------------------------------------- claims
\* Whether the history holds, at place k, the call `op` on `obj` with result `res`.
IsOp(k, step, op, obj, res) ==
    /\ ops[k].step = step
    /\ ops[k].op = op
    /\ ops[k].obj = obj
    /\ ops[k].res = res

Did(step, op, obj, res) == \E k \in DOMAIN ops : IsOp(k, step, op, obj, res)

Executed == \E k \in DOMAIN ops : ops[k].op = "Exec"

\* C1: in a test case without a job, every verification command that is
\* executed comes after a successful wait for the pod to be Running, and once
\* that wait has failed (a timeout past 300 s included) the test is failed,
\* the run is over and no verification command has been executed.
C1_RunningBeforeCommands ==
    ~tc.job =>
        /\ \A k \in DOMAIN ops :
              ops[k].op = "Exec" =>
                 \E j \in 1..(k - 1) : IsOp(j, "Setup", "Wait", "PodRunning", "ok")
        /\ Did("Setup", "Wait", "PodRunning", "err") =>
              /\ tFailed.feature
              /\ pc = "Done"
              /\ stepState["Assess"] = "notrun"
              /\ ~Executed

\* A command was executed in a test case without a job.
C1_Witness == ~tc.job /\ Executed /\ Did("Setup", "Wait", "PodRunning", "ok")

Created(obj) == Did("Setup", "Create", obj, "ok")

\* C2: when testCase.run has ended, every object that Setup created in the
\* cluster has been deleted, whatever the outcome of Setup and Assess.
C2_CreatedObjectsDeleted ==
    pc = "Done" =>
        \A obj \in {"configMap", "secret", "pod", "job"} : Created(obj) => obj \notin cluster

\* How the Assess subtest ended, as go test reports it: a failed test is
\* reported failed even if it was skipped afterwards.
AssessEnded == stepState["Assess"] \in {"returned", "failnow", "skipnow", "panic"}

Verdict ==
    IF ~AssessEnded THEN "none"
    ELSE IF stepState["Assess"] = "panic" THEN "panic"
    ELSE IF tFailed.assess THEN "failed"
    ELSE IF stepState["Assess"] = "skipnow" THEN "skipped"
    ELSE "passed"

\* The pods of the job in the listing (those carrying its job-name label)
\* that terminated with `reason`.  In a job-driven case the namespace's pods
\* do not change between Assess's listing and Teardown's deletes of them, so
\* podlist holds what Assess listed from the listing on.
JobPodsWith(reason) ==
    {i \in DOMAIN podlist : podlist[i].jobName /\ podlist[i].reason = reason}

\* No pod of the job completed and every listed pod terminated StartError.
AllErrored ==
    /\ JobPodsWith("Completed") = {}
    /\ \A i \in DOMAIN podlist : podlist[i].reason = "StartError"

\* Exactly one pod of the job completed and at least one terminated StartError.
OneCompletedAmidErrors ==
    /\ Cardinality(JobPodsWith("Completed")) = 1
    /\ JobPodsWith("StartError") # {}

\* A call of Assess returned an error (listing, clientset, watch, log stream).
AssessCallFailed ==
    \E k \in DOMAIN ops :
        ops[k].step = "Assess" /\ ops[k].res \in {"err", "streamErr", "copyErr"}

\* C3, as claimed: in a job-driven case, when none of the job's pods completed
\* and every listed pod terminated StartError the test ends failed, and when
\* exactly one completed and at least one terminated StartError it ends
\* skipped.
C3_FailOrSkip ==
    (tc.job /\ AssessEnded) =>
        /\ AllErrored => Verdict = "failed"
        /\ OneCompletedAmidErrors => Verdict = "skipped"

\* C3, amended: in a job-driven case, when none of the job's pods completed
\* and every listed pod terminated StartError the test ends failed; when
\* exactly one completed and at least one terminated StartError it ends
\* skipped, unless a call of the assessment returned an error first (then it
\* ends failed) or the assessment panicked; in neither situation does it
\* end passed.
C3_FailOrSkipUnlessCallFails ==
    (tc.job /\ AssessEnded) =>
        /\ AllErrored => Verdict = "failed"
        /\ OneCompletedAmidErrors =>
              /\ Verdict \in {"skipped", "failed", "panic"}
              /\ Verdict = "failed" <=> AssessCallFailed
              /\ Verdict = "skipped" <=> stepState["Assess"] = "skipnow"
        /\ (AllErrored \/ OneCompletedAmidErrors) => Verdict # "passed"

\* A job-driven case with one completed pod amid errors ended skipped.
C3_Witness == tc.job /\ OneCompletedAmidErrors /\ Verdict = "skipped"

\* Teardown called Delete on obj (whatever the call returned).
DeleteAttempted(obj) ==
    \E k \in DOMAIN ops :
        ops[k].step = "Teardown" /\ ops[k].op = "Delete" /\ ops[k].obj = obj

\* C4: when testCase.run has ended, each of the config map, the secret and
\* the job has had a deletion attempt by Teardown if and only if Setup
\* created it during this run.
C4_DeleteIffCreated ==
    pc = "Done" =>
        \A obj \in {"configMap", "secret", "job"} : DeleteAttempted(obj) <=> Created(obj)

\* The Exec calls of the history, in order.
Execs == SelectSeq(ops, LAMBDA o : o.op = "Exec")

\* C5: in the assessment of a test case without a job, HasPodVM is called
\* before any verification command; the commands run in list order, the
\* n-th in the container the n-th command names and in the pod named
\* tc.pod.Name; a command that errs or whose predicate is false is the last
\* one executed, and it fails the test and ends the assessment.
C5_AssessOrder ==
    ~tc.job =>
        /\ \A k \in DOMAIN ops :
              ops[k].op = "Exec" =>
                 \E j \in 1..(k - 1) : ops[j].step = "Assess" /\ ops[j].op = "HasPodVM"
        /\ \A n \in DOMAIN Execs :
              /\ n <= Len(tc.testCommands)
              /\ Execs[n].n = n
              /\ Execs[n].obj = tc.testCommands[n].containerName
              /\ Execs[n].pod = PodName
              /\ InListing(podlist, PodName)
              /\ Execs[n].res # "ok" =>
                    /\ n = Len(Execs)
                    /\ tFailed.assess
                    /\ stepState["Assess"] = "failnow"

\* Two commands were executed, and the second failed.
C5_Witness ==
    /\ ~tc.job
    /\ Len(Execs) = 2
    /\ Execs[1].res = "ok"
    /\ Execs[2].res = "badOutput"
    /\ tc.testCommands[1].containerName # tc.testCommands[2].containerName

\* The Create calls of Setup, in order (failed ones included).
Creates == SelectSeq(ops, LAMBDA o : o.step = "Setup" /\ o.op = "Create")

\* The place of an object in Setup's order: config map, secret, workload.
CreateRank(obj) ==
    CASE obj = "configMap" -> 1
      [] obj = "secret" -> 2
      [] OTHER -> 3

\* C6: Setup creates in the order config map, secret, workload, each only
\* if the test case has it; the workload is the job with a job and the pod
\* without; when Setup has completed, of the pod and the job exactly the one
\* of the case was created; Teardown deletes the pod only without a job.
C6_CreateOrder ==
    /\ \A k, l \in DOMAIN Creates :
          k < l => CreateRank(Creates[k].obj) < CreateRank(Creates[l].obj)
    /\ \A k \in DOMAIN Creates :
          CASE Creates[k].obj = "configMap" -> tc.configMap
            [] Creates[k].obj = "secret" -> tc.secret
            [] Creates[k].obj = "job" -> tc.job
            [] Creates[k].obj = "pod" -> ~tc.job
    /\ stepState["Setup"] = "returned" =>
          /\ Created("configMap") <=> tc.configMap
          /\ Created("secret") <=> tc.secret
          /\ Created("job") <=> tc.job
          /\ Created("pod") <=> ~tc.job
          /\ Created("job") # Created("pod")
    /\ DeleteAttempted("pod") => ~tc.job /\ ~Created("job")

\* Setup of a job-driven case with a config map and a secret has completed.
C6_Witness ==
    /\ stepState["Setup"] = "returned"
    /\ Len(Creates) = 3
    /\ Created("configMap") /\ Created("secret") /\ Created("job")

JobWaitFailed == Did("Setup", "Wait", "JobCompleted", "err")

\* Assess has started and made no call yet.
AssessAtStart ==
    /\ stepState["Assess"] = "running"
    /\ \A k \in DOMAIN ops : ops[k].step # "Assess"

\* C7: in a job-driven case, an error of the job-completion wait is only
\* logged: Setup still completes, the test is not marked failed by it, and
\* Assess and Teardown are run afterwards.
C7_JobWaitOnlyLogged ==
    JobWaitFailed =>
        /\ stepState["Setup"] \in {"running", "returned"}
        /\ stepState["Setup"] = "running" => pc = "s_waitpod"
        /\ stepState["Setup"] = "returned" => stepState["Assess"] # "notrun"
        /\ AssessAtStart => ~tFailed.feature
        /\ pc = "Done" => stepState["Assess"] # "notrun" /\ stepState["Teardown"] # "notrun"

\* The place of a call in Teardown's order: the listing and the client, the
\* pod, the config map, the secret, the job, the job's pods.
TeardownRank(op, obj) ==
    CASE op # "Delete" -> 0
      [] obj = "pod" -> 1
      [] obj = "configMap" -> 2
      [] obj = "secret" -> 3
      [] obj = "job" -> 4
      [] OTHER -> 5

\* The place in Teardown's listing of the pod named `name`.
IndexOf(name) == CHOOSE i \in DOMAIN podlist : podlist[i].name = name

PodDeleteAttempted(name) ==
    \E k \in DOMAIN ops :
        ops[k].step = "Teardown" /\ ops[k].op = "Delete" /\ ops[k].obj = "jobpod"
            /\ ops[k].pod = name

\* C8: a listing, client or deletion error in Teardown is its last call: the
\* test is failed, Teardown has ended, no object later in Teardown's order
\* (pod, config map, secret, job, the job's pods) has had a deletion
\* attempt, and those that Setup created (the job's pods: that were listed)
\* and no other writer deleted are still in the cluster.
C8_TeardownStopsAtFirstError ==
    \A k \in DOMAIN ops :
        (ops[k].step = "Teardown" /\ ops[k].res = "err") =>
            /\ k = Len(ops)
            /\ pc = "Done"
            /\ stepState["Teardown"] = "failnow"
            /\ tFailed.feature
            /\ \A obj \in {"pod", "configMap", "secret", "job"} :
                  TeardownRank("Delete", obj) > TeardownRank(ops[k].op, ops[k].obj) =>
                      /\ ~DeleteAttempted(obj)
                      /\ (Created(obj) /\ ~Did("Other", "Delete", obj, "ok")) => obj \in cluster
            /\ \A i \in DOMAIN podlist :
                  (/\ Did("Teardown", "List", "pods", "ok")
                   /\ podlist[i].jobName
                   /\ TeardownRank(ops[k].op, ops[k].obj) = 5 => i > IndexOf(ops[k].pod)) =>
                      /\ ~PodDeleteAttempted(podlist[i].name)
                      /\ InListing(nsPods, podlist[i].name)

\* Teardown of a job-driven case failed deleting the config map, with the
\* secret, the job and a pod of the job still to delete.
C8_Witness ==
    /\ Did("Teardown", "Delete", "configMap", "err")
    /\ Created("secret") /\ Created("job")
    /\ \E i \in DOMAIN podlist : podlist[i].jobName

\* A failure that the harness itself recorded on the test: an error of a
\* call (the job-completion wait's is only logged), a failed verification
\* command, a failed check.  (HasPodVM is the caller's.)
RecordsFailure(o) ==
    /\ o.res \in {"err", "execErr", "badOutput", "streamErr", "copyErr", "fail"}
    /\ ~(o.op = "Wait" /\ o.obj = "JobCompleted")
    /\ o.step \in Steps

IsCheck(o, obj, res) == o.step = "Assess" /\ o.op = "Check" /\ o.obj = obj /\ o.res = res

ProvisionCalls ==
    SelectSeq(cli.calls, LAMBDA c : c.m \in {"CreateVPC", "CreateCluster", "UploadPodvm", "Deploy"})

ProvisionSequence ==
    IF cli.podvmImage # ""
    THEN <<"CreateVPC", "CreateCluster", "UploadPodvm", "Deploy">>
    ELSE <<"CreateVPC", "CreateCluster", "Deploy">>

Called(m, res) == \E k \in DOMAIN cli.calls : cli.calls[k] = Call(m, res)

\* C10: for -action=provision the calls made are a prefix of CreateVPC,
\* CreateCluster, UploadPodvm (only with an image path), Deploy, and every
\* call but the last made has succeeded; so Deploy is called only after the
\* network and the cluster were created and, with an image path, the image
\* was uploaded.
C10_ProvisionOrder ==
    cli.action = "provision" =>
        /\ Len(ProvisionCalls) <= Len(ProvisionSequence)
        /\ \A n \in DOMAIN ProvisionCalls :
              /\ ProvisionCalls[n].m = ProvisionSequence[n]
              /\ n < Len(ProvisionCalls) => ProvisionCalls[n].res = "ok"
        /\ (Called("Deploy", "ok") \/ Called("Deploy", "err")) =>
              /\ Called("CreateVPC", "ok")
              /\ Called("CreateCluster", "ok")
              /\ cli.podvmImage # "" => Called("UploadPodvm", "ok")

\* provision with an image path got as far as Deploy.
C10_Witness ==
    /\ cli.action = "provision"
    /\ cli.podvmImage # ""
    /\ Called("Deploy", "ok")
    /\ Len(ProvisionCalls) = 4

\* The place in cli.calls of the call of m (0 when m was never called).
CallAt(m) ==
    IF \E k \in DOMAIN cli.calls : cli.calls[k].m = m
    THEN CHOOSE k \in DOMAIN cli.calls : cli.calls[k].m = m
    ELSE 0

\* C11: for -action=deprovision, DeleteCluster is called before DeleteVPC
\* and DeleteVPC is called only after DeleteCluster succeeded; when
\* DeleteCluster fails DeleteVPC is never called and the process exits with
\* status 1.
C11_DeprovisionOrder ==
    cli.action = "deprovision" =>
        /\ CallAt("DeleteVPC") # 0 =>
              /\ CallAt("DeleteCluster") # 0
              /\ CallAt("DeleteCluster") < CallAt("DeleteVPC")
              /\ Called("DeleteCluster", "ok")
        /\ Called("DeleteCluster", "err") =>
              /\ CallAt("DeleteVPC") = 0
              /\ cli.pc = "exit"
              /\ cli.status = 1
        /\ \A k \in DOMAIN cli.calls :
              cli.calls[k].m \in {"GetCloudProvisioner", "DeleteCluster", "DeleteVPC"}

\* deprovision deleted the cluster and went on to delete the network.
C11_Witness ==
    /\ cli.action = "deprovision"
    /\ Called("DeleteCluster", "ok")
    /\ CallAt("DeleteVPC") # 0

\* A step of the selected action failed: a call returned an error, or the
\* check of the image file did.
StepFailed(c) == c.res # "ok"

\* C12: for provision, deprovision and uploadimage, a failed step (a call
\* returning an error, the check of the image file returning any error) is
\* the last call made and the process exits with status 1; the process
\* exits with status 0 only if every step succeeded.
C12_AnyFailureExits1 ==
    cli.action \in {"provision", "deprovision", "uploadimage"} =>
        /\ \A k \in DOMAIN cli.calls :
              StepFailed(cli.calls[k]) =>
                  /\ k = Len(cli.calls)
                  /\ cli.pc = "exit"
                  /\ cli.status = 1
        /\ (cli.pc = "exit" /\ cli.status = 0) =>
              \A k \in DOMAIN cli.calls : ~StepFailed(cli.calls[k])

\* The watches that Assess has opened so far.
WatchesOpened ==
    Cardinality({k \in DOMAIN ops : IsOp(k, "Assess", "Watch", "events", "ok")})

AssessPcs ==
    {"a_list", "a_haspodvm", "a_cmd", "a_clientset", "a_pod", "a_watch", "a_events",
     "a_logs", "a_chk_allerr", "a_chk_skip", "a_chk_log"}

\* C13: every event watch opened by the job-driven assessment is stopped
\* once the assessment step has ended, however it ended (return, t.Fatal,
\* t.Skip); the watch loop runs in the assessing thread, so that while the
\* loop waits the step has not ended and once the step has ended no
\* statement of Assess is left to run.
C13_WatchesStopped ==
    /\ AssessEnded => watchers = 0
    /\ stepState["Assess"] = "notrun" => watchers = 0
    /\ stepState["Assess"] = "running" => watchers = WatchesOpened
    /\ pc \in AssessPcs <=> stepState["Assess"] = "running"

\* Two watches were opened and the assessment ended by t.Fatal while
\* streaming a log.
C13_Witness ==
    /\ stepState["Assess"] = "failnow"
    /\ WatchesOpened = 2
    /\ Did("Assess", "GetLogs", "log", "streamErr")

\* A watch was opened and the assessment ended by t.Skip.
C13_WitnessSkip ==
    /\ stepState["Assess"] = "skipnow"
    /\ WatchesOpened = 1

\* C14, as claimed: every pod a fixture builder makes carries the runtime
\* class name "kata-remote", whatever the arguments and options.
C14_FixedRuntimeClass ==
    fx.pod # <<>> => fx.pod[1].runtimeClassName = Ref("kata-remote")

\* The first container of pod p mounts, at mountPath, a volume of the config
\* map named cm.
MountsConfigMap(p, cm, mountPath) ==
    \E v \in DOMAIN p.volumes, m \in DOMAIN p.containers[1].volumeMounts :
        /\ p.volumes[v].source = "configMap"
        /\ p.volumes[v].ref = cm
        /\ p.containers[1].volumeMounts[m].name = p.volumes[v].name
        /\ p.containers[1].volumeMounts[m].mountPath = mountPath

\* C15: in the config-map test the pod mounts (at /etc/config) the config
\* map whose key example.txt holds "Hello, world"; the one verification
\* command is cat /etc/config/example.txt in the pod's first container; its
\* predicate accepts the stdout if and only if it equals "Hello, world", and
\* any other stdout fails the test.
C15_ConfigMapTest ==
    fx.made = "doTestCreatePodWithConfigMap" =>
        /\ fx.configMap[1].data = <<<<"example.txt", "Hello, world">>>>
        /\ fx.configMap[1].namespace = fx.pod[1].namespace
        /\ MountsConfigMap(fx.pod[1], fx.configMap[1].name, "/etc/config")
        /\ Len(fx.testCommands) = 1
        /\ fx.testCommands[1].command = <<"cat", "/etc/config/example.txt">>
        /\ fx.testCommands[1].containerName = fx.pod[1].containers[1].name
        /\ fx.stdout # <<>> =>
              /\ fx.accepted[1] <=> fx.stdout[1] = "Hello, world"
              /\ fx.verdict = (IF fx.stdout[1] = "Hello, world" THEN "pass" ELSE "fatal")

\* The command wrote the contents followed by a newline and the test failed.
C15_Witness ==
    /\ fx.made = "doTestCreatePodWithConfigMap"
    /\ fx.stdout = <<"Hello, world\n">>
    /\ fx.verdict = "fatal"

\* Every job of the run has a result.
WfDone == \A j \in Jobs : Concluded(wf, j)

\* The cleanup steps that delete resource r.
DeleteSteps(r) ==
    CASE r = "cluster" -> {"Run deprovisioner", "Remove AKS cluster"}
      [] r = "podvmImage" -> {"Remove podvm image"}
      [] r = "caaImage" -> {"Remove container image"}

\* C16: once the run has ended, for every cluster or image the run created
\* the cleanup steps that delete it have been run, whatever the results of
\* the earlier jobs (install-aks or run-e2e-test failed, the run cancelled).
C16_CleanupAlwaysRuns ==
    WfDone => \A r \in wf.made : DeleteSteps(r) \subseteq wf.ran

\* The run that shows it: the adaptor image build failed, install-aks was
\* skipped and uploaded no configuration, and the PodVM image that was built
\* is still there when the run has ended, its delete step never run.
C16_LeakedImage ==
    /\ WfDone
    /\ ~wf.cancelled
    /\ wf.result[BuildCaa] = "failure"
    /\ wf.result[InstallAks] = "skipped"
    /\ wf.result[BuildPodvm] = "success"
    /\ "podvmImage" \in wf.exists
    /\ "Remove podvm image" \notin wf.ran

\* Job j has been started (it is running or has ended, and was not skipped).
Started(j) == wf.result[j] \in {"running", "success", "failure", "cancelled"}

\* C17: install-aks does not need build-podvm-image and is taken up as soon
\* as generate-podvm-image-version and build-caa-container-image have a
\* result, whatever the state of build-podvm-image; run-e2e-test is taken up
\* only when install-aks and build-podvm-image have both ended.
C17_AksBesidePodvmBuild ==
    /\ BuildPodvm \notin Needs(InstallAks)
    /\ wf.result[InstallAks] # "pending" =>
          Concluded(wf, GenVersion) /\ Concluded(wf, BuildCaa)
    /\ wf.result[RunE2e] # "pending" =>
          Concluded(wf, InstallAks) /\ Concluded(wf, BuildPodvm)
    /\ wf.overlap => Started(InstallAks) /\ Started(BuildPodvm)

\* install-aks and build-podvm-image have been running at the same time and
\* run-e2e-test is running, after both.
C17_Witness ==
    /\ wf.overlap
    /\ wf.result[RunE2e] = "running"
    /\ wf.result[InstallAks] = "success"
    /\ wf.result[BuildPodvm] = "success"

\* C18: a job-driven case ends passed only if a pod carrying the job's name
\* terminated Completed and the log fetched from a completed pod contains
\* "3.14"; when no pod of the job completed, the assessment ends with the
\* test failed (a panic of the assessment is reported as a failure too).
C18_PassNeedsCompletedAndLog ==
    tc.job =>
        /\ Verdict = "passed" =>
              /\ JobPodsWith("Completed") # {}
              /\ \E k \in DOMAIN ops :
                    /\ IsOp(k, "Assess", "GetLogs", "log", "ok")
                    /\ ops[k].pod \in {podlist[i].name : i \in JobPodsWith("Completed")}
              /\ Contains(podlogstring, <<"3", ".", "1", "4">>)
        /\ (AssessEnded /\ JobPodsWith("Completed") = {}) =>
              /\ Verdict \in {"failed", "panic"}
              /\ tFailed.assess
              /\ tFailed.feature

\* A job-driven case ended passed.
C18_Witness ==
    /\ tc.job
    /\ Verdict = "passed"
    /\ Did("Assess", "GetLogs", "log", "ok")

\* C19: whenever the job-driven assessment reads the termination reason of
\* a job pod's first container, that container is terminated.
C19_ReasonReadOfTerminated ==
    \A k \in DOMAIN ops : ops[k].op = "ReadReason" => ops[k].res # "none"

\* C20: the watch loop entered for a completed job pod is left only on a
\* "Started" event of that pod, and with that pod's log fetched: it is not
\* left on the channel closing, on an event of another object or by a panic.
C20_WatchLoopEndsOnOwnStarted ==
    \A k \in DOMAIN ops :
        ops[k].op = "Event" =>
            /\ ops[k].res = "Started"
            /\ k < Len(ops) =>
                  /\ ops[k + 1].op = "GetLogs"
                  /\ ops[k + 1].pod = ops[k].pod

\* The number of times the n-th verification command was executed with
\* result res.
TimesExecuted(n, res) ==
    Cardinality({k \in DOMAIN ops : ops[k].op = "Exec" /\ ops[k].n = n /\ ops[k].res = res})

\* C21: when the assessment of a test case without a job ends passed, every
\* verification command of the case was executed exactly once and its
\* predicate returned true, whatever other writers did to the cluster
\* between Setup's running check and the listing.
C21_PassedMeansAllCommandsRan ==
    (~tc.job /\ Verdict = "passed") =>
        \A n \in DOMAIN tc.testCommands :
            /\ TimesExecuted(n, "ok") = 1
            /\ TimesExecuted(n, "execErr") = 0
            /\ TimesExecuted(n, "badOutput") = 0

\* The run that shows it: the pod was deleted by another writer before the
\* listing, the case has verification commands, none was executed and the
\* assessment ended passed.
C21_PassedWithoutCommands ==
    /\ ~tc.job
    /\ Verdict = "passed"
    /\ tc.testCommands # <<>>
    /\ ~Executed
    /\ Did("Other", "Delete", "pod", "ok")
    /\ Did("Setup", "Wait", "PodRunning", "ok")

\* C22: the predicate of each verification command is handed the stdout of
\* that command alone: the buffer holds what the command wrote and nothing
\* of what the commands before it wrote.
C22_StdoutPerCommand ==
    /\ Len(fx.stdout) = Len(fx.output)
    /\ Len(fx.accepted) = Len(fx.output)
    /\ \A n \in DOMAIN fx.stdout :
          /\ fx.stdout[n] = fx.output[n]
          /\ fx.accepted[n] <=> fx.output[n] = fx.testCommands[n].expects

\* The secret test ran both its commands: the first wrote the user name,
\* the second the password, and both were accepted.
C22_Witness ==
    /\ fx.made = "doTestCreatePodWithSecret"
    /\ fx.output = <<"admin", "password">>
    /\ fx.verdict = "pass"

\* The successful deletions by Teardown of the job pod named `name`.
PodDeletions(name) ==
    {k \in DOMAIN ops :
        /\ ops[k].step = "Teardown" /\ ops[k].op = "Delete" /\ ops[k].obj = "jobpod"
        /\ ops[k].pod = name /\ ops[k].res = "ok"}

\* C23: in a job-driven case, every deletion of a pod of the job comes after
\* the successful deletion of the job and after the assessment has ended;
\* and when Teardown has returned (all its deletions succeeded), every pod
\* that carried the job's label in Teardown's listing has been deleted
\* exactly once.
C23_JobThenItsPods ==
    tc.job =>
        /\ \A k \in DOMAIN ops :
              (ops[k].op = "Delete" /\ ops[k].obj = "jobpod") =>
                  /\ ops[k].step = "Teardown"
                  /\ AssessEnded
                  /\ \E j \in 1..(k - 1) : IsOp(j, "Teardown", "Delete", "job", "ok")
                  /\ \E j \in 1..(k - 1) : ops[j].step = "Assess"
                  /\ \A j \in (k + 1)..Len(ops) : ops[j].step # "Assess"
        /\ stepState["Teardown"] = "returned" =>
              \A i \in DOMAIN podlist :
                  podlist[i].jobName => Cardinality(PodDeletions(podlist[i].name)) = 1

\* Teardown of a job-driven case returned after deleting the job and two
\* pods of the job.
C23_Witness ==
    /\ tc.job
    /\ stepState["Teardown"] = "returned"
    /\ Cardinality({i \in DOMAIN podlist : podlist[i].jobName}) = 2
    /\ \A i \in DOMAIN podlist : Cardinality(PodDeletions(podlist[i].name)) = 1

\* The provisioner and adaptor methods an action's block calls.
MethodsOf(action) ==
    CASE action = "provision" ->
            {"CreateVPC", "CreateCluster", "UploadPodvm", "NewCloudAPIAdaptor",
             "GetProperties", "Deploy"}
      [] action = "deprovision" -> {"DeleteCluster", "DeleteVPC"}
      [] action = "uploadimage" -> {"UploadPodvm"}
      [] OTHER -> {}

\* The methods called so far, but for GetCloudProvisioner and os.Stat, which
\* belong to no one action.
MethodsCalled ==
    {cli.calls[k].m : k \in DOMAIN cli.calls} \ {"GetCloudProvisioner", "Stat"}

\* C24, as claimed: only the methods of the action named by -action are
\* called (of provision when the flag is absent), and for any other value
\* no method is called and the process exits with status 0.
C24_ExclusiveActions ==
    /\ cli.flag = <<>> => cli.action = "provision"
    /\ cli.flag # <<>> => cli.action = cli.flag[1]
    /\ MethodsCalled \subseteq MethodsOf(cli.action)
    /\ (cli.action \notin {"provision", "deprovision", "uploadimage"} /\ cli.pc = "exit") =>
          cli.status = 0

\* C24, amended: only the methods of the action named by -action are called
\* (of provision when the flag is absent); for any other value no method is
\* called and the process exits with status 0, unless GetCloudProvisioner,
\* which is called before the flag is looked at, failed: then it exits with
\* status 1.
C24_ExclusiveActionsAfterProvisioner ==
    /\ cli.flag = <<>> => cli.action = "provision"
    /\ cli.flag # <<>> => cli.action = cli.flag[1]
    /\ MethodsCalled \subseteq MethodsOf(cli.action)
    /\ (cli.action \notin {"provision", "deprovision", "uploadimage"} /\ cli.pc = "exit") =>
          /\ MethodsCalled = {}
          /\ Called("GetCloudProvisioner", "ok") => cli.status = 0
          /\ Called("GetCloudProvisioner", "err") => cli.status = 1

\* The command was run with another -action value and exited with status 0
\* having called nothing but GetCloudProvisioner.
C24_Witness ==
    /\ cli.flag = <<"status">>
    /\ cli.pc = "exit"
    /\ cli.status = 0
    /\ Len(cli.calls) = 1

\* The number of calls of method m so far.
TimesCalled(m) == Cardinality({k \in DOMAIN cli.calls : cli.calls[k].m = m})

Methods ==
    {"GetCloudProvisioner", "CreateVPC", "CreateCluster", "UploadPodvm",
     "NewCloudAPIAdaptor", "GetProperties", "Deploy", "DeleteCluster", "DeleteVPC"}

\* C25: within one invocation every provisioner method is called at most
\* once (no retry), and for -action=provision no Delete method is ever
\* called (no rollback): when a step fails the process exits with the calls
\* made so far, the successful ones not undone.
C25_NoRetryNoRollback ==
    /\ \A m \in Methods : TimesCalled(m) <= 1
    /\ \A k \in DOMAIN cli.calls : cli.calls[k].m \in Methods \cup {"Stat"}
    /\ cli.action = "provision" =>
          /\ TimesCalled("DeleteCluster") = 0
          /\ TimesCalled("DeleteVPC") = 0
          /\ \A k \in DOMAIN cli.calls :
                cli.calls[k].res = "err" => k = Len(cli.calls) /\ cli.pc = "exit"

\* provision created the network, failed to create the cluster and exited.
C25_Witness ==
    /\ cli.action = "provision"
    /\ Called("CreateVPC", "ok")
    /\ Called("CreateCluster", "err")
    /\ cli.pc = "exit"
    /\ cli.status = 1

\* C26: run-e2e-test is not taken up before install-aks, build-podvm-image
\* and build-caa-container-image each have a result; it is not running in a
\* cancelled run and has never been started when build-podvm-image failed;
\* and it is skipped for no other reason than these two, so that it runs
\* when the image builds were skipped because prebuilt images were given.
C26_E2eStart ==
    /\ wf.result[RunE2e] # "pending" =>
          /\ Concluded(wf, InstallAks)
          /\ Concluded(wf, BuildPodvm)
          /\ Concluded(wf, BuildCaa)
    /\ wf.result[RunE2e] = "running" => ~wf.cancelled
    /\ Started(RunE2e) => wf.result[BuildPodvm] # "failure"
    /\ wf.result[RunE2e] = "skipped" =>
          wf.cancelled \/ wf.result[BuildPodvm] = "failure"

\* Both images were given as inputs, the two builds were skipped and
\* run-e2e-test is running.
C26_Witness ==
    /\ wf.podvmImageId # ""
    /\ wf.caaImage # ""
    /\ wf.result[BuildPodvm] = "skipped"
    /\ wf.result[BuildCaa] = "skipped"
    /\ wf.result[RunE2e] = "running"

\* C27: run-e2e-test is never started in a run where install-aks failed or
\* was skipped, and install-aks is never started in a run where
\* build-caa-container-image failed.
C27_E2eOnlyOnInstalledCluster ==
    /\ Started(RunE2e) => wf.result[InstallAks] = "success"
    /\ Started(InstallAks) => wf.result[BuildCaa] # "failure"

\* The run that shows it: install-aks failed and run-e2e-test is running.
C27_E2eAfterFailedInstall ==
    /\ wf.result[InstallAks] = "failure"
    /\ wf.result[RunE2e] = "running"

\* The delete commands run so far that name an image of kind k.
DeletedOf(k) == {d \in wf.deleted : d.kind = k}

\* C28: cleanup runs the PodVM image's delete command only when no
\* podvm-image-id input was given, and the version it names is the one
\* generate-podvm-image-version put out in this run; it runs the adaptor
\* image's delete command only when no caa-image input was given, and the
\* image it names is the one this run's commit tags; an image given as input
\* is never named by a delete command.
C28_DeletesOnlyOwnImages ==
    /\ ("Remove podvm image" \in wf.ran \/ DeletedOf("podvmImage") # {}) =>
          /\ wf.podvmImageId = ""
          /\ DeletedOf("podvmImage") = {[kind |-> "podvmImage", id |-> wf.version]}
    /\ ("Remove container image" \in wf.ran \/ DeletedOf("caaImage") # {}) =>
          /\ wf.caaImage = ""
          /\ DeletedOf("caaImage") =
                {[kind |-> "caaImage", id |-> "cloud-api-adaptor:dev-GITHUB_SHA"]}
    /\ \A d \in wf.deleted : d.id \notin {wf.podvmImageId, wf.caaImage} \ {""}
    /\ wf.podvmImageId # "" => "podvmImage" \notin wf.made /\ wf.version = ""
    /\ wf.caaImage # "" => "caaImage" \notin wf.made

\* A run given a prebuilt adaptor image and no PodVM image: cleanup deleted
\* the PodVM image version the run generated and left the adaptor image
\* alone.
C28_Witness ==
    /\ WfDone
    /\ wf.podvmImageId = ""
    /\ wf.caaImage # ""
    /\ wf.version = "unique_version"
    /\ "Remove podvm image" \in wf.ran
    /\ "podvmImage" \in wf.made \ wf.exists
    /\ "Remove container image" \notin wf.ran
    /\ "Remove AKS cluster" \in wf.ran
====
